---- MODULE Spec2Model ----
(***************************************************************************)
(* Document Tabs: the tree data provider (src/src/tabsProvider.ts, the     *)
(* class starting at line 435), the path classifiers (src/unnamed/part_003)*)
(* and the refresh coordinator of activate() (src/unnamed/part_000).       *)
(*                                                                         *)
(* Strings are sequences of one-character strings.  A document's identity  *)
(* is its URI; all URIs have the file scheme, and a URI is represented by  *)
(* its path.                                                               *)
(***************************************************************************)
EXTENDS Integers, Sequences, FiniteSets, TLC

(***************************************************************************)
(* Bounds of the model.                                                    *)
(***************************************************************************)
\* tabs open at the same time, over all panes
MaxTabs == 2
\* cap on the ledger counter (orderCounter)
MaxOrder == 3
\* clock ticks the model lets pass
MaxTicks == 2
\* workspaceState.update() calls that may be unsettled at the same time
MaxWrites == 1
\* tabs open when the extension is activated, where the seeding is examined
MaxSeeded == 3
\* the entries projectFolderCache may hold (1000 in types.ts)
MAX_PROJECT_CACHE_SIZE == 2
\* the length of the keys that are hashed
MaxKeyLen == 6

(***************************************************************************)
(* Strings                                                                 *)
(***************************************************************************)
\* an optional value: undefined, or a value
\* a local constant bound once: Value({ body : x \in { e } }) is body with x
\* bound to the value of e
Value(S) == CHOOSE v \in S : TRUE

None == << >>
Some(v) == << v >>
Get(o) == o[1]

\* the characters of the model's strings and their UTF-16 code units
Symbols == << " ", "-", ".", "/", "_" >>
SymbolCodes == << 32, 45, 46, 47, 95 >>
Digits == << "0", "1", "2", "3", "4", "5", "6", "7", "8", "9" >>
Upper ==
  << "A", "B", "C", "D", "E", "F", "G", "H", "I", "J", "K", "L", "M",
     "N", "O", "P", "Q", "R", "S", "T", "U", "V", "W", "X", "Y", "Z" >>
Lower ==
  << "a", "b", "c", "d", "e", "f", "g", "h", "i", "j", "k", "l", "m",
     "n", "o", "p", "q", "r", "s", "t", "u", "v", "w", "x", "y", "z" >>

Chars ==
  {Symbols[i] : i \in 1..Len(Symbols)} \cup {Digits[i] : i \in 1..Len(Digits)}
    \cup {Upper[i] : i \in 1..Len(Upper)} \cup {Lower[i] : i \in 1..Len(Lower)}

\* String.prototype.charCodeAt
CharCode ==
  [c \in Chars |->
      IF \E i \in 1..Len(Symbols) : Symbols[i] = c
      THEN SymbolCodes[CHOOSE i \in 1..Len(Symbols) : Symbols[i] = c]
      ELSE IF \E i \in 1..Len(Digits) : Digits[i] = c
      THEN 47 + (CHOOSE i \in 1..Len(Digits) : Digits[i] = c)
      ELSE IF \E i \in 1..Len(Upper) : Upper[i] = c
      THEN 64 + (CHOOSE i \in 1..Len(Upper) : Upper[i] = c)
      ELSE 96 + (CHOOSE i \in 1..Len(Lower) : Lower[i] = c)]

\* String.prototype.split(sep) for a one-character separator
RECURSIVE SplitFrom(_, _, _, _)
SplitFrom(s, sep, i, cur) ==
  IF i > Len(s) THEN << cur >>
  ELSE IF s[i] = sep THEN << cur >> \o SplitFrom(s, sep, i + 1, << >>)
  ELSE SplitFrom(s, sep, i + 1, Append(cur, s[i]))

Split(s, sep) == SplitFrom(s, sep, 1, << >>)

\* the default comparison of Array.prototype.sort(): by UTF-16 code units
RECURSIVE CodeUnitLess(_, _)
CodeUnitLess(a, b) ==
  IF b = << >> THEN FALSE
  ELSE IF a = << >> THEN TRUE
  ELSE IF CharCode[Head(a)] # CharCode[Head(b)] THEN CharCode[Head(a)] < CharCode[Head(b)]
  ELSE CodeUnitLess(Tail(a), Tail(b))

\* primary collation weight of a character: letters compare without case
\* (sensitivity 'base'), punctuation before digits before letters
BaseWeight(c) ==
  LET k == CharCode[c] IN
  IF k >= 97 /\ k <= 122 THEN 200 + (k - 97)
  ELSE IF k >= 65 /\ k <= 90 THEN 200 + (k - 65)
  ELSE IF k >= 48 /\ k <= 57 THEN 100 + (k - 48)
  ELSE k

\* a.localeCompare(b, undefined, {sensitivity: 'base'}): negative, 0, positive
RECURSIVE localeCompare(_, _)
localeCompare(a, b) ==
  IF a = << >> /\ b = << >> THEN 0
  ELSE IF a = << >> THEN -1
  ELSE IF b = << >> THEN 1
  ELSE IF BaseWeight(Head(a)) # BaseWeight(Head(b))
       THEN BaseWeight(Head(a)) - BaseWeight(Head(b))
  ELSE localeCompare(Tail(a), Tail(b))

(***************************************************************************)
(* Documents                                                               *)
(***************************************************************************)
\* /src/b.ts, /src/A.ts and /lib/a.ts
UriA == << "/", "s", "r", "c", "/", "b", ".", "t", "s" >>
UriB == << "/", "s", "r", "c", "/", "A", ".", "t", "s" >>
UriC == << "/", "l", "i", "b", "/", "a", ".", "t", "s" >>

Uris == { UriA, UriB, UriC }

\* a document whose name has no extension
UriM == << "/", "l", "i", "b", "/", "M", "a", "k", "e", "f", "i", "l", "e" >>

\* the input of a tab that shows no document (terminal, settings, welcome page)
NoInput == << >>

Inputs == Uris \cup { NoInput }

\* vscode.Tab: the input and the pinned flag
Tabs == [ input : Uris, isPinned : BOOLEAN ] \cup [ input : { NoInput }, isPinned : { FALSE } ]

Panes == 1..2

\* uri.toString()
UriToString(uri) == << "f", "i", "l", "e", ":", "/", "/" >> \o uri

\* the URI of a tab, None when the input has none
getTabUri(tab) == IF tab.input # NoInput THEN tab.input ELSE None

getFileName(uri) ==
  LET parts == Split(uri, "/") IN
  IF parts[Len(parts)] # << >> THEN parts[Len(parts)] ELSE uri

NoExtension == << "N", "o", " ", "E", "x", "t", "e", "n", "s", "i", "o", "n" >>

\* getFileExtension that takes a leading dot for no extension, as
\* path.extname does
getFileExtensionOfDotfileIsNone(uri) ==
  LET parts == Split(getFileName(uri), ".") IN
  IF Len(parts) > 2 \/ (Len(parts) = 2 /\ parts[1] # << >>)
  THEN << "." >> \o parts[Len(parts)]
  ELSE NoExtension

getFileExtension(uri) ==
  LET parts == Split(getFileName(uri), ".") IN
  IF Len(parts) > 1 THEN << "." >> \o parts[Len(parts)] ELSE NoExtension

RootName == << "R", "o", "o", "t" >>

getParentFolder(uri) ==
  LET parts == Split(uri, "/") IN
  IF Len(parts) >= 2
  THEN (IF parts[Len(parts) - 1] # << >> THEN parts[Len(parts) - 1] ELSE RootName)
  ELSE RootName

(***************************************************************************)
(* Preferences                                                             *)
(***************************************************************************)
SortOrders == { "alphabetical", "recentlyOpenedFirst", "recentlyOpenedLast" }
GroupBys == { "none", "folder", "extension" }

ColorBys == { "none", "extension" }

Configs ==
  [ sortOrder : SortOrders, groupBy : GroupBys, colorBy : ColorBys,
    showPinnedSeparately : BOOLEAN,
    showTabCount : BOOLEAN, collapseGroupsByDefault : BOOLEAN ]

\* the defaults of getConfig
DefaultConfig ==
  [ sortOrder |-> "alphabetical", groupBy |-> "folder", colorBy |-> "none",
    showPinnedSeparately |-> TRUE, showTabCount |-> TRUE, collapseGroupsByDefault |-> FALSE ]

\* the configurations that leave the colouring at its default
ViewConfigs == { c \in Configs : c.colorBy = DefaultConfig.colorBy }

\* the validity of the cached configuration, in milliseconds
ConfigCacheMs == 100
\* the milliseconds of one clock tick of the model
TickMs == 50

(***************************************************************************)
(* State                                                                   *)
(***************************************************************************)
VARIABLES
  \* the host: vscode.window.tabGroups.all, the documentTabs settings, Date.now()
  tabGroups, settings, now,
  \* DocumentTabsProvider
  tabOpenOrder, orderCounter, treeView, badge,
  cachedAllTabs, cachedRootChildren, cachedRootChildrenSignature, parentLookupMap,
  cachedConfig, configCacheInvalidateTime,
  \* activate(): the coalescing flag and the armed zero-delay timers
  refreshPending, timers,
  \* observation: the last operation, the root result returned since the last
  \* change notification, the tree-changed notifications of the last step
  lastOp, returned, fired,
  \* history: the identities whose ledger entry has been removed at some time
  retired,
  \* the host: the document of vscode.window.activeTextEditor, the manual
  \* colours in context.workspaceState, the workspaceState.update() calls that
  \* have not settled yet
  activeTextEditor, workspaceState, awaiting,
  \* observation: the document the last command handed to showTextDocument,
  \* and the active editor that command found
  shown, shownFrom,
  \* observation: the last colour command (document, colour, whether the
  \* document had a manual colour, and which), the last tree item built
  colorCall, treeItem,
  \* the host: whether workspaceState holds a record of manual colours;
  \* observation: the last message handed to showErrorMessage
  stored, errorShown,
  \* the host: the directories on disk, each with its listing;
  \* types.ts: the module's projectFolderCache, in insertion order;
  \* observation: the last getProjectFolder call (document, label, the cache
  \* and the disk it found)
  disk, projectFolderCache, projectCall,
  \* observation: the last key hashed for an automatic colour, with its hash,
  \* its index and the colour
  hashCall,
  \* the host: the root nodes the tree view displays, from its last request
  displayed,
  \* the host: whether it has disposed of context.subscriptions
  disposed

hostVars == << tabGroups, settings, now >>
\* the fields of the provider and, with them, the cache of the module it calls
providerVars ==
  << tabOpenOrder, orderCounter, treeView, badge, cachedAllTabs, cachedRootChildren,
     cachedRootChildrenSignature, parentLookupMap, cachedConfig, configCacheInvalidateTime,
     projectFolderCache >>
coordVars == << refreshPending, timers >>
obsVars == << lastOp, returned, fired, retired >>
sessionVars ==
  << activeTextEditor, workspaceState, awaiting, shown, shownFrom, colorCall, treeItem,
     stored, errorShown, disk, projectCall, hashCall, displayed, disposed >>
vars == << hostVars, providerVars, coordVars, obsVars, sessionVars >>

\* the provider object as a record of its fields
Self ==
  [ tabOpenOrder |-> tabOpenOrder, orderCounter |-> orderCounter, treeView |-> treeView,
    badge |-> badge, cachedAllTabs |-> cachedAllTabs,
    cachedRootChildren |-> cachedRootChildren,
    cachedRootChildrenSignature |-> cachedRootChildrenSignature,
    parentLookupMap |-> parentLookupMap, cachedConfig |-> cachedConfig,
    configCacheInvalidateTime |-> configCacheInvalidateTime,
    projectFolderCache |-> projectFolderCache ]

\* the host as the provider reads it
Host(groups, prefs, time) ==
  [ tabGroups |-> groups, settings |-> prefs, now |-> time, disk |-> disk ]

EmptyMap == [ k \in { } |-> None ]

\* a Map after set(key, value)
MapSet(m, key, value) ==
  [ k \in (DOMAIN m) \cup { key } |-> IF k = key THEN value ELSE m[k] ]

\* a Map after delete(key)
MapDelete(m, key) == [ k \in (DOMAIN m) \ { key } |-> m[k] ]

(***************************************************************************)
(* Project folders (types.ts)                                              *)
(***************************************************************************)
\* String.prototype.toLowerCase
toLowerCase(s) ==
  [ i \in 1..Len(s) |->
      IF \E k \in 1..Len(Upper) : Upper[k] = s[i]
      THEN Lower[CHOOSE k \in 1..Len(Upper) : Upper[k] = s[i]]
      ELSE s[i] ]

\* String.prototype.lastIndexOf for one character, counted from 1: 0 when
\* the character does not occur
lastIndexOf(s, c) ==
  IF \E i \in 1..Len(s) : s[i] = c
  THEN CHOOSE i \in 1..Len(s) : s[i] = c /\ \A j \in (i + 1)..Len(s) : s[j] # c
  ELSE 0

\* path.dirname of a POSIX path without a trailing slash
dirname(path) ==
  Value({ IF i = 0 THEN << "." >>
          ELSE IF i = 1 THEN << "/" >>
          ELSE SubSeq(path, 1, i - 1)
          : i \in { lastIndexOf(path, "/") } })

\* the workspace folder of the window: /w, shown as W
WorkspacePath == << "/", "w" >>
WorkspaceName == << "W" >>

\* vscode.workspace.getWorkspaceFolder(uri): the folder that contains the
\* document, None when none does
workspaceFolderOf(uri) ==
  IF /\ Len(uri) > Len(WorkspacePath) + 1
     /\ SubSeq(uri, 1, Len(WorkspacePath) + 1) = WorkspacePath \o << "/" >>
  THEN Some([ fsPath |-> WorkspacePath, name |-> WorkspaceName ])
  ELSE None

\* vscode.workspace.asRelativePath(uri, false)
asRelativePath(uri) ==
  IF workspaceFolderOf(uri) # None
  THEN SubSeq(uri, Len(WorkspacePath) + 2, Len(uri))
  ELSE uri

External == << "E", "x", "t", "e", "r", "n", "a", "l" >>

\* where /\.[^.]*proj$/i matches a file name: the place of the dot, 0 when
\* the name does not match
projMatch(file) ==
  Value({ IF /\ dot > 0
             /\ Len(file) - dot >= 4
             /\ toLowerCase(SubSeq(file, Len(file) - 3, Len(file))) = << "p", "r", "o", "j" >>
          THEN dot ELSE 0
          : dot \in { lastIndexOf(file, ".") } })

\* the loop over the files of a directory: the name of the first project
\* file with the match stripped, None when the directory lists none
RECURSIVE projectNameIn(_)
projectNameIn(files) ==
  IF files = << >> THEN None
  ELSE Value({ IF dot > 0 THEN Some(SubSeq(Head(files), 1, dot - 1))
               ELSE projectNameIn(Tail(files))
               : dot \in { projMatch(Head(files)) } })

\* a directory as fs sees it: not there (existsSync is false), there but
\* readdirSync throws, or listed
Missing == [ state |-> "missing", files |-> << >> ]
Unreadable == [ state |-> "unreadable", files |-> << >> ]
Listed(files) == [ state |-> "listed", files |-> files ]

\* a disk on which no directory exists
NoDisk == [ dir \in { } |-> Missing ]

\* the body of the try block for one directory: a thrown error is caught and
\* logged, and the directory yields nothing, as one that does not exist
scanDirectory(dsk, currentDir) ==
  IF currentDir \notin DOMAIN dsk THEN None
  ELSE IF dsk[currentDir].state = "listed" THEN projectNameIn(dsk[currentDir].files)
  ELSE None

\* the walk without the try block's catch: the error of readdirSync ends it
RECURSIVE walkUpStopsAtError(_, _, _)
walkUpStopsAtError(dsk, currentDir, workspacePath) ==
  IF ~ (currentDir # << >> /\ Len(currentDir) >= Len(workspacePath)) THEN None
  ELSE IF currentDir \in DOMAIN dsk /\ dsk[currentDir].state = "unreadable" THEN None
  ELSE Value({ IF found # None THEN found
               ELSE IF dirname(currentDir) = currentDir THEN None
               ELSE walkUpStopsAtError(dsk, dirname(currentDir), workspacePath)
               : found \in { scanDirectory(dsk, currentDir) } })

\* the walk that stops below the workspace folder
RECURSIVE walkUpBelowRoot(_, _, _)
walkUpBelowRoot(dsk, currentDir, workspacePath) ==
  IF ~ (currentDir # << >> /\ Len(currentDir) > Len(workspacePath)) THEN None
  ELSE Value({ IF found # None THEN found
               ELSE IF dirname(currentDir) = currentDir THEN None
               ELSE walkUpBelowRoot(dsk, dirname(currentDir), workspacePath)
               : found \in { scanDirectory(dsk, currentDir) } })

\* the while loop of getProjectFolder: the project name of the nearest
\* directory that lists a project file, None when the loop ends without one
RECURSIVE walkUp(_, _, _)
walkUp(dsk, currentDir, workspacePath) ==
  IF ~ (currentDir # << >> /\ Len(currentDir) >= Len(workspacePath)) THEN None
  ELSE Value({ IF found # None THEN found
               ELSE IF dirname(currentDir) = currentDir THEN None
               ELSE walkUp(dsk, dirname(currentDir), workspacePath)
               : found \in { scanDirectory(dsk, currentDir) } })

rootFolders ==
  { << "s", "r", "c" >>, << "s", "o", "u", "r", "c", "e" >>, << "l", "i", "b" >>,
    << "l", "i", "b", "s" >>, << "p", "a", "c", "k", "a", "g", "e", "s" >>,
    << "p", "r", "o", "j", "e", "c", "t", "s" >>, << "a", "p", "p", "s" >>,
    << "m", "o", "d", "u", "l", "e", "s" >> }

\* the loop over dirParts: the first folder that is no root folder
RECURSIVE firstMeaningful(_)
firstMeaningful(dirParts) ==
  IF dirParts = << >> THEN None
  ELSE IF toLowerCase(Head(dirParts)) \notin rootFolders /\ Len(Head(dirParts)) > 0
       THEN Some(Head(dirParts))
  ELSE firstMeaningful(Tail(dirParts))

\* asRelativePath(uri, false).split(/[\\/]/).slice(0, -1)
dirPartsOf(uri) ==
  Value({ SubSeq(parts, 1, Len(parts) - 1) : parts \in { Split(asRelativePath(uri), "/") } })

\* the Map projectFolderCache as the sequence of its entries, oldest first
cacheHas(cache, key) == \E i \in 1..Len(cache) : cache[i].key = key

cacheGet(cache, key) == cache[CHOOSE i \in 1..Len(cache) : cache[i].key = key].value

\* Map.set: a key that is there keeps its place
cacheSet(cache, key, value) ==
  IF cacheHas(cache, key)
  THEN [ i \in 1..Len(cache) |->
           IF cache[i].key = key THEN [ key |-> key, value |-> value ] ELSE cache[i] ]
  ELSE Append(cache, [ key |-> key, value |-> value ])

\* the store that never evicts
cacheStoreUnbounded(cache, key, value) == cacheSet(cache, key, value)

\* the lines before each return: at the maximum the first key is deleted,
\* when it is a non-empty string, then the entry is set
cacheStore(cache, key, value) ==
  cacheSet(IF /\ Len(cache) >= MAX_PROJECT_CACHE_SIZE
              /\ Len(cache) > 0
              /\ Head(cache).key # << >>
           THEN Tail(cache)
           ELSE cache,
           key, value)

\* the label getProjectFolder computes when the cache has none
projectLabel(dsk, uri, workspaceFolder) ==
  Value({ IF found # None THEN Get(found)
          ELSE Value({ IF folder # None THEN Get(folder) ELSE workspaceFolder.name
                       : folder \in { firstMeaningful(dirPartsOf(uri)) } })
          : found \in { walkUp(dsk, dirname(uri), workspaceFolder.fsPath) } })

\* getProjectFolder: the module's cache after the call and the label
getProjectFolder(p, h, uri) ==
  IF workspaceFolderOf(uri) = None THEN [ p |-> p, ret |-> External ]
  ELSE IF cacheHas(p.projectFolderCache, dirname(uri))
  THEN [ p |-> p, ret |-> cacheGet(p.projectFolderCache, dirname(uri)) ]
  ELSE Value({ [ p |-> [ p EXCEPT !.projectFolderCache =
                           cacheStore(@, dirname(uri), label) ],
                 ret |-> label ]
               : label \in { projectLabel(h.disk, uri, Get(workspaceFolderOf(uri))) } })

\* refresh without clearProjectFolderCache
clearProjectFolderCacheKeepsEntries(p) == p

\* clearProjectFolderCache
clearProjectFolderCache(p) == [ p EXCEPT !.projectFolderCache = << >> ]

(***************************************************************************)
(* DocumentTabsProvider                                                    *)
(***************************************************************************)
\* invalidateCache that keeps the cached root and its signature
invalidateCacheKeepsRoot(p) ==
  [ p EXCEPT !.cachedAllTabs = None, !.parentLookupMap = EmptyMap, !.cachedConfig = None ]

invalidateCache(p) ==
  [ p EXCEPT !.cachedAllTabs = None, !.cachedRootChildren = None,
             !.cachedRootChildrenSignature = None, !.parentLookupMap = EmptyMap,
             !.cachedConfig = None ]

\* the loop of initializeTabOrder over the tabs of all panes, in host order
RECURSIVE seedOrder(_, _)
seedOrder(p, tabs) ==
  IF tabs = << >> THEN p
  ELSE LET uri == getTabUri(Head(tabs)) IN
       seedOrder(IF uri # None
                 THEN [ p EXCEPT !.tabOpenOrder = MapSet(@, UriToString(uri), p.orderCounter),
                                 !.orderCounter = @ + 1 ]
                 ELSE p,
                 Tail(tabs))

\* all tabs of all panes, pane by pane
AllTabsOf(groups) == groups[1] \o groups[2]

initializeTabOrder(p, groups) == seedOrder(p, AllTabsOf(groups))

\* trackNewTabs' loop with the counter read but not advanced
RECURSIVE trackLoopCounterNotAdvanced(_, _)
trackLoopCounterNotAdvanced(p, tabs) ==
  IF tabs = << >> THEN p
  ELSE LET uri == getTabUri(Head(tabs)) IN
       trackLoopCounterNotAdvanced(
         IF uri # None /\ UriToString(uri) \notin DOMAIN p.tabOpenOrder
         THEN [ p EXCEPT !.tabOpenOrder = MapSet(@, UriToString(uri), p.orderCounter) ]
         ELSE p,
         Tail(tabs))

\* trackNewTabs' loop that does not ask whether the tab has a URI
RECURSIVE trackLoopTracksEveryTab(_, _)
trackLoopTracksEveryTab(p, tabs) ==
  IF tabs = << >> THEN p
  ELSE LET uri == getTabUri(Head(tabs)) IN
       trackLoopTracksEveryTab(
         IF UriToString(uri) \notin DOMAIN p.tabOpenOrder
         THEN [ p EXCEPT !.tabOpenOrder = MapSet(@, UriToString(uri), p.orderCounter),
                         !.orderCounter = @ + 1 ]
         ELSE p,
         Tail(tabs))

\* the loop of trackNewTabs
RECURSIVE trackLoop(_, _)
trackLoop(p, tabs) ==
  IF tabs = << >> THEN p
  ELSE LET uri == getTabUri(Head(tabs)) IN
       trackLoop(IF uri # None /\ UriToString(uri) \notin DOMAIN p.tabOpenOrder
                 THEN [ p EXCEPT !.tabOpenOrder = MapSet(@, UriToString(uri), p.orderCounter),
                                 !.orderCounter = @ + 1 ]
                 ELSE p,
                 Tail(tabs))

\* trackNewTabs with the invalidation outside the length test
trackNewTabsAlwaysInvalidates(p, tabs) == invalidateCache(trackLoop(p, tabs))

\* trackNewTabs without the invalidation
trackNewTabsKeepsCaches(p, tabs) == trackLoop(p, tabs)

trackNewTabs(p, tabs) ==
  LET q == trackLoop(p, tabs) IN
  IF Len(tabs) > 0 THEN invalidateCache(q) ELSE q

\* the loop of removeClosedTabs
removeLoopKeepsEntries(p, tabs) == p

RECURSIVE removeLoop(_, _)
removeLoop(p, tabs) ==
  IF tabs = << >> THEN p
  ELSE LET uri == getTabUri(Head(tabs)) IN
       removeLoop(IF uri # None
                  THEN [ p EXCEPT !.tabOpenOrder = MapDelete(@, UriToString(uri)) ]
                  ELSE p,
                  Tail(tabs))

removeClosedTabs(p, tabs) ==
  LET q == removeLoop(p, tabs) IN
  IF Len(tabs) > 0 THEN invalidateCache(q) ELSE q

\* getConfig: the provider after the call and the configuration returned
getConfig(p, h) ==
  IF p.cachedConfig # None /\ h.now - p.configCacheInvalidateTime < ConfigCacheMs
  THEN [ p |-> p, ret |-> Get(p.cachedConfig) ]
  ELSE [ p |-> [ p EXCEPT !.cachedConfig = Some(h.settings),
                          !.configCacheInvalidateTime = h.now ],
         ret |-> h.settings ]

\* this.tabOpenOrder.get(key) ?? 0
sequenceOf(order, key) == IF key \in DOMAIN order THEN order[key] ELSE 0

\* the TabItem getAllTabs pushes for a tab with a URI
TabItemOf(p, tab, projectFolder) ==
  LET uri == getTabUri(tab) IN
  [ type |-> "tab", uri |-> uri, label |-> getFileName(uri), isPinned |-> tab.isPinned,
    openedAt |-> sequenceOf(p.tabOpenOrder, UriToString(uri)), groupName |-> None,
    projectFolder |-> projectFolder, tab |-> tab ]

\* getAllTabs that precomputes the project folder in every mode
needsProjectFolderAlways(config) == TRUE

needsProjectFolder(config) == config.groupBy = "project" \/ config.colorBy = "project"

\* the loop of getAllTabs: the provider, with the module's cache, after the
\* loop and the records pushed
RECURSIVE snapshotLoop(_, _, _, _)
snapshotLoop(p, h, tabs, needs) ==
  IF tabs = << >> THEN [ p |-> p, ret |-> << >> ]
  ELSE IF getTabUri(Head(tabs)) = None THEN snapshotLoop(p, h, Tail(tabs), needs)
  ELSE Value({ Value({ [ p |-> rest.p,
                         ret |-> << TabItemOf(p, Head(tabs), f.ret) >> \o rest.ret ]
                       : rest \in { snapshotLoop(f.p, h, Tail(tabs), needs) } })
               : f \in { IF needs
                         THEN Value({ [ p |-> r.p, ret |-> Some(r.ret) ]
                                      : r \in { getProjectFolder(p, h, getTabUri(Head(tabs))) } })
                         ELSE [ p |-> p, ret |-> None ] } })

\* getAllTabs: the provider after the call and the snapshot returned
getAllTabs(p, h) ==
  IF p.cachedAllTabs # None
  THEN [ p |-> p, ret |-> Get(p.cachedAllTabs) ]
  ELSE Value({ Value({ [ p |-> [ s.p EXCEPT !.cachedAllTabs = Some(s.ret) ], ret |-> s.ret ]
                       : s \in { snapshotLoop(c.p, h, AllTabsOf(h.tabGroups),
                                              needsProjectFolder(c.ret)) } })
               : c \in { getConfig(p, h) } })

\* updateBadge that sets the count whatever showTabCount says
updateBadgeSetsCountAlways(p, h) ==
  IF ~ p.treeView THEN p
  ELSE Value({ [ a.p EXCEPT !.badge = Some(Len(a.ret)) ]
               : a \in { getAllTabs(getConfig(p, h).p, h) } })

\* updateBadge
updateBadge(p, h) ==
  IF ~ p.treeView THEN p
  ELSE Value({ IF ~ c.ret.showTabCount THEN [ c.p EXCEPT !.badge = None ]
                ELSE Value({ [ a.p EXCEPT !.badge = Some(Len(a.ret)) ]
                             : a \in { getAllTabs(c.p, h) } })
                : c \in { getConfig(p, h) } })

\* refresh that leaves the caches as they are
refreshKeepsCaches(p, h) == updateBadge(p, h)

\* refresh, without the event it fires
\* refresh that also starts the ledger anew
refreshRestartsLedger(p, h) ==
  updateBadge(invalidateCache(clearProjectFolderCache(
                [ p EXCEPT !.tabOpenOrder = EmptyMap, !.orderCounter = 0 ])), h)

refresh(p, h) == updateBadge(invalidateCache(clearProjectFolderCache(p)), h)

\* setTreeView
setTreeView(p, h) == updateBadge([ p EXCEPT !.treeView = TRUE ], h)

(***************************************************************************)
(* Tab colours                                                             *)
(***************************************************************************)
\* TabColorName without 'none': autoColorPalette, in its order
autoColorPalette ==
  << "lavender", "gold", "cyan", "burgundy", "green", "brown", "royalBlue", "pumpkin",
     "gray", "volt", "teal", "magenta", "mint", "darkBrown", "blue", "pink" >>

TabColorNames == { "none" } \cup { autoColorPalette[i] : i \in 1..Len(autoColorPalette) }

\* a 32-bit word as its two 16-bit halves
HalfWord == 65536
Word(hi, lo) == [ hi |-> hi, lo |-> lo ]

\* a ^ b for two numbers below 2^16
RECURSIVE Xor(_, _)
Xor(a, b) ==
  IF a = 0 THEN b
  ELSE IF b = 0 THEN a
  ELSE 2 * Xor(a \div 2, b \div 2) + ((a + b) % 2)

\* hash << 5, in 32 bits
ShiftLeft5(w) ==
  Word((w.hi * 32 + (w.lo * 32) \div HalfWord) % HalfWord, (w.lo * 32) % HalfWord)

\* a + b brought back to 32 bits, as the ^ that follows does
Add32(a, b) ==
  Word((a.hi + b.hi + (a.lo + b.lo) \div HalfWord) % HalfWord, (a.lo + b.lo) % HalfWord)

\* hashString without Math.abs
Abs32Omitted(w) == w

\* Math.abs of the signed 32-bit number a word stands for; 2^31 for -2^31
Abs32(w) ==
  IF w.hi < HalfWord \div 2 THEN w
  ELSE Word((HalfWord - 1 - w.hi + (IF w.lo = 0 THEN 1 ELSE 0)) % HalfWord,
            (HalfWord - w.lo) % HalfWord)

\* word % n
Mod32(w, n) == ((w.hi % n) * (HalfWord % n) + w.lo) % n

\* the loop of hashString: hash = ((hash << 5) + hash) ^ value.charCodeAt(i)
RECURSIVE hashLoop(_, _)
hashLoop(hash, value) ==
  IF value = << >> THEN hash
  ELSE Value({ hashLoop(Word(sum.hi, Xor(sum.lo, CharCode[Head(value)])), Tail(value))
               : sum \in { Add32(ShiftLeft5(hash), hash) } })

\* hashString (djb2): the absolute value of the 32-bit hash
hashString(value) == Abs32(hashLoop(Word(0, 5381), value))

\* autoColorPalette[hashString(key) % autoColorPalette.length]
autoColor(key) == autoColorPalette[Mod32(hashString(key), Len(autoColorPalette)) + 1]

\* getManualTabColors: the stored record, {} when nothing is stored
getManualTabColors(store) == store

\* setManualTabColor that stores 'none' like any other colour
setManualTabColorStoresNone(store, uri, color) ==
  MapSet(getManualTabColors(store), UriToString(uri), color)

\* setManualTabColor up to its await: the record handed to
\* workspaceState.update
setManualTabColor(store, uri, color) ==
  IF color = "none"
  THEN MapDelete(getManualTabColors(store), UriToString(uri))
  ELSE MapSet(getManualTabColors(store), UriToString(uri), color)

\* getEffectiveTabColor that asks the mode before the manual colours
getEffectiveTabColorModeFirst(store, tab, config) ==
  IF config.colorBy = "none" THEN "none"
  ELSE IF UriToString(tab.uri) \in DOMAIN getManualTabColors(store)
  THEN getManualTabColors(store)[UriToString(tab.uri)]
  ELSE autoColor(getFileExtension(tab.uri))

\* getEffectiveTabColor
getEffectiveTabColor(store, tab, config) ==
  IF UriToString(tab.uri) \in DOMAIN getManualTabColors(store)
  THEN getManualTabColors(store)[UriToString(tab.uri)]
  ELSE IF config.colorBy = "none" THEN "none"
  ELSE IF config.colorBy = "extension" THEN autoColor(getFileExtension(tab.uri))
  ELSE "none"

\* getTreeItem for a document record: the provider after the call and the
\* colour of the icon
getTreeItem(p, h, store, element) ==
  Value({ [ p |-> c.p, ret |-> [ uri |-> element.uri,
                                 tabColor |-> getEffectiveTabColor(store, element, c.ret) ] ]
          : c \in { getConfig(p, h) } })

(***************************************************************************)
(* Sorting and grouping                                                    *)
(***************************************************************************)
\* the comparator of sortTabs: negative, zero or positive
compareTabs(config, a, b) ==
  CASE config.sortOrder = "alphabetical" -> localeCompare(a.label, b.label)
    [] config.sortOrder = "recentlyOpenedFirst" -> b.openedAt - a.openedAt
    [] config.sortOrder = "recentlyOpenedLast" -> a.openedAt - b.openedAt
    [] OTHER -> 0

\* x inserted into a sorted sequence behind every element that does not
\* compare greater than it
\* the insertion of an unstable sort: x goes before the elements it equals
RECURSIVE insertSortedBeforeEqual(_, _, _)
insertSortedBeforeEqual(config, sorted, x) ==
  IF sorted = << >> THEN << x >>
  ELSE IF compareTabs(config, Head(sorted), x) >= 0 THEN << x >> \o sorted
  ELSE << Head(sorted) >> \o insertSortedBeforeEqual(config, Tail(sorted), x)

RECURSIVE insertSorted(_, _, _)
insertSorted(config, sorted, x) ==
  IF sorted = << >> THEN << x >>
  ELSE IF compareTabs(config, Head(sorted), x) > 0 THEN << x >> \o sorted
  ELSE << Head(sorted) >> \o insertSorted(config, Tail(sorted), x)

RECURSIVE sortInto(_, _, _)
sortInto(config, sorted, rest) ==
  IF rest = << >> THEN sorted
  ELSE sortInto(config, insertSorted(config, sorted, Head(rest)), Tail(rest))

\* sortTabs that returns the copy unsorted
sortTabsKeepsOrder(tabs, config) == tabs

\* sortTabs: [...tabs].sort(comparator), a stable sort of a copy
sortTabs(tabs, config) == sortInto(config, << >>, tabs)

\* the switch of groupTabs: the bucket key of a document
groupNameOf(uri, config) ==
  CASE config.groupBy = "folder" -> getParentFolder(uri)
    [] config.groupBy = "extension" -> getFileExtension(uri)
    [] OTHER -> << >>

\* groupTabs assigns tab.groupName on the TabItem object itself
withGroupName(tab, config) ==
  [ tab EXCEPT !.groupName = Some(groupNameOf(tab.uri, config)) ]

RECURSIVE mapGroupName(_, _)
mapGroupName(tabs, config) ==
  IF tabs = << >> THEN << >>
  ELSE << withGroupName(Head(tabs), config) >> \o mapGroupName(Tail(tabs), config)

\* the keys of the Map of groupTabs
groupKeys(tabs, config) == { groupNameOf(tabs[i].uri, config) : i \in 1..Len(tabs) }

\* groupTabs that keeps only the first member of a bucket
groupTabsKeepsFirstMember(tabs, config) ==
  Value({ [ name \in groupKeys(tabs, config) |->
              SubSeq(sortTabs(SelectSeq(named, LAMBDA t : Get(t.groupName) = name), config), 1, 1) ]
          : named \in { mapGroupName(tabs, config) } })

\* groupTabs: for each key the bucket, in encounter order and then sorted
groupTabs(tabs, config) ==
  Value({ [ name \in groupKeys(tabs, config) |->
              sortTabs(SelectSeq(named, LAMBDA t : Get(t.groupName) = name), config) ]
          : named \in { mapGroupName(tabs, config) } })

\* the loop of groupTabs in mode project: the name of a record is
\* tab.projectFolder ?? getProjectFolder(tab.uri); the provider, with the
\* module's cache, after the loop and the records with their names
RECURSIVE projectNameLoop(_, _, _)
projectNameLoop(p, h, tabs) ==
  IF tabs = << >> THEN [ p |-> p, ret |-> << >> ]
  ELSE Value({ Value({ [ p |-> rest.p,
                         ret |-> << [ Head(tabs) EXCEPT !.groupName = Some(f.ret) ] >>
                                   \o rest.ret ]
                       : rest \in { projectNameLoop(f.p, h, Tail(tabs)) } })
               : f \in { IF Head(tabs).projectFolder # None
                         THEN [ p |-> p, ret |-> Get(Head(tabs).projectFolder) ]
                         ELSE getProjectFolder(p, h, Head(tabs).uri) } })

\* groupTabs in every mode: the provider after the call, the buckets, and the
\* records with the groupName it has written
groupTabsOf(p, h, tabs, config) ==
  IF config.groupBy = "project"
  THEN Value({ [ p |-> l.p,
                 ret |-> [ name \in { Get(l.ret[i].groupName) : i \in 1..Len(l.ret) } |->
                             sortTabs(SelectSeq(l.ret, LAMBDA t : Get(t.groupName) = name),
                                      config) ],
                 named |-> l.ret ]
               : l \in { projectNameLoop(p, h, tabs) } })
  ELSE [ p |-> p, ret |-> groupTabs(tabs, config), named |-> mapGroupName(tabs, config) ]

\* the snapshot objects after groupTabs has named the records it was given:
\* equal records keep their order in a stable sort, so the k-th of them in
\* the snapshot is the k-th of them among the records given
namedObjects(tabs0, given, named) ==
  [ i \in 1..Len(tabs0) |->
      LET k == Cardinality({ j \in 1..i : tabs0[j] = tabs0[i] })
          at == { j \in 1..Len(given) :
                   /\ given[j] = tabs0[i]
                   /\ Cardinality({ m \in 1..j : given[m] = tabs0[i] }) = k }
      IN IF at = { } THEN tabs0[i] ELSE named[Value(at)] ]

\* the keys sorted with the comparison reversed
RECURSIVE sortNamesDescending(_)
sortNamesDescending(names) ==
  IF names = { } THEN << >>
  ELSE LET most == CHOOSE n \in names : \A m \in names \ { n } : CodeUnitLess(m, n)
       IN << most >> \o sortNamesDescending(names \ { most })

\* Array.from(groups.keys()).sort()
RECURSIVE sortNames(_)
sortNames(names) ==
  IF names = { } THEN << >>
  ELSE LET least == CHOOSE n \in names : \A m \in names \ { n } : CodeUnitLess(n, m)
       IN << least >> \o sortNames(names \ { least })

\* the name of the pinned group; "pin" stands for the pushpin sign U+1F4CC
PinnedName == << "pin", " ", "P", "i", "n", "n", "e", "d" >>
OtherName == << "O", "t", "h", "e", "r" >>

\* the GroupItem built for a bucket
groupItemOf(name, tabs, config) ==
  [ type |-> "group", name |-> IF name # << >> THEN name ELSE OtherName, tabs |-> tabs,
    collapsibleState |-> IF config.collapseGroupsByDefault THEN "Collapsed" ELSE "Expanded" ]

\* the pinned group with the state of the other groups when they are collapsed
pinnedGroupOfCollapsed(tabs) ==
  [ type |-> "group", name |-> PinnedName, tabs |-> tabs, collapsibleState |-> "Collapsed" ]

pinnedGroupOf(tabs) ==
  [ type |-> "group", name |-> PinnedName, tabs |-> tabs, collapsibleState |-> "Expanded" ]

RECURSIVE groupItems(_, _, _)
groupItems(names, groups, config) ==
  IF names = << >> THEN << >>
  ELSE << groupItemOf(Head(names), groups[Head(names)], config) >>
         \o groupItems(Tail(names), groups, config)

\* buildParentLookup, for one group
RECURSIVE lookupLoop(_, _, _)
lookupLoop(m, groupItem, tabs) ==
  IF tabs = << >> THEN m
  ELSE lookupLoop(MapSet(m, UriToString(Head(tabs).uri), groupItem), groupItem, Tail(tabs))

buildParentLookup(m, groupItem) == lookupLoop(m, groupItem, groupItem.tabs)

\* buildParentLookup for the groups of a root result, in order
RECURSIVE buildParentLookups(_, _)
buildParentLookups(m, items) ==
  IF items = << >> THEN m
  ELSE buildParentLookups(buildParentLookup(m, Head(items)), Tail(items))

signatureOf(config) ==
  << config.sortOrder, config.groupBy, IF config.showPinnedSeparately THEN 1 ELSE 0,
     IF config.collapseGroupsByDefault THEN 1 ELSE 0 >>

\* the rebuild of getChildren at root level, from the snapshot (the TabItem
\* objects of cachedAllTabs): the root children and the snapshot objects
\* after groupTabs has written their groupName
buildRoot(p, h, tabs0, config) ==
  Value({
    IF config.showPinnedSeparately
    THEN Value({
           IF config.groupBy = "none"
           THEN [ p |-> p, root |-> pinned.result \o pinned.unpinnedTabs, objects |-> tabs0 ]
           ELSE Value({ [ p |-> g.p,
                          root |-> pinned.result
                                     \o groupItems(sortNames(DOMAIN g.ret), g.ret, config),
                          objects |-> namedObjects(tabs0, pinned.unpinnedTabs, g.named) ]
                        : g \in { groupTabsOf(p, h, pinned.unpinnedTabs, config) } })
           : pinned \in { [ result |-> IF Len(pinnedTabs) > 0
                                       THEN << pinnedGroupOf(pinnedTabs) >> ELSE << >>,
                            unpinnedTabs |-> SelectSeq(tabs, LAMBDA t : ~ t.isPinned) ]
                          : pinnedTabs \in { SelectSeq(tabs, LAMBDA t : t.isPinned) } } })
    ELSE IF config.groupBy = "none"
         THEN [ p |-> p, root |-> tabs, objects |-> tabs0 ]
         ELSE Value({ [ p |-> g.p,
                        root |-> groupItems(sortNames(DOMAIN g.ret), g.ret, config),
                        objects |-> namedObjects(tabs0, tabs, g.named) ]
                      : g \in { groupTabsOf(p, h, tabs, config) } })
    : tabs \in { sortTabs(tabs0, config) } })

isGroupItem(item) == item.type = "group"
isTabItem(item) == item.type = "tab"

\* getParent: the index entry of a document record, nothing for a group
getParent(p, element) ==
  IF isTabItem(element)
  THEN IF UriToString(element.uri) \in DOMAIN p.parentLookupMap
       THEN Some(p.parentLookupMap[UriToString(element.uri)])
       ELSE None
  ELSE None

\* findTabByUri: the provider after getAllTabs() and the first record of the
\* document in the snapshot, if there is one
findTabByUri(p, h, uri) ==
  Value({ [ p |-> a.p,
            ret |-> Value({ IF hits = { } THEN None
                            ELSE Some(a.ret[Value({ i \in hits : \A j \in hits : i <= j })])
                            : hits \in { { i \in 1..Len(a.ret) :
                                             UriToString(a.ret[i].uri) = UriToString(uri) } } }) ]
          : a \in { getAllTabs(p, h) } })

\* the loop of getOrderedTabs over the root children
RECURSIVE flattenItems(_)
flattenItems(children) ==
  IF children = << >> THEN << >>
  ELSE (IF isTabItem(Head(children)) THEN << Head(children) >> ELSE Head(children).tabs)
         \o flattenItems(Tail(children))

\* the rebuild of getChildren() at root level, after getConfig() has returned
\* c: the provider after it, the result, and that the result was built
rebuildRoot(c, h) ==
  Value({ Value({ [ p |-> [ b.p EXCEPT
                              !.cachedAllTabs = Some(b.objects),
                              !.cachedRootChildren = Some(b.root),
                              !.cachedRootChildrenSignature = Some(signatureOf(c.ret)),
                              !.parentLookupMap =
                                 buildParentLookups(EmptyMap,
                                    SelectSeq(b.root, isGroupItem)) ],
                    ret |-> b.root, built |-> TRUE ]
                  : b \in { buildRoot(a.p, h, a.ret, c.ret) } })
          : a \in { getAllTabs([ c.p EXCEPT !.parentLookupMap = EmptyMap ], h) } })

\* getChildren() that returns a cached root result whatever its signature
getChildrenIgnoresSignature(p, h) ==
  Value({ IF c.p.cachedRootChildren # None
          THEN [ p |-> c.p, ret |-> Get(c.p.cachedRootChildren), built |-> FALSE ]
          ELSE rebuildRoot(c, h)
          : c \in { getConfig(p, h) } })

\* getChildren() that never returns the cached root result
getChildrenAlwaysRebuilds(p, h) == rebuildRoot(getConfig(p, h), h)

\* getChildren() at root level: the provider after the call, the result, and
\* whether the result was built in this call
getChildren(p, h) ==
  Value({ IF c.p.cachedRootChildren # None
             /\ c.p.cachedRootChildrenSignature = Some(signatureOf(c.ret))
          THEN [ p |-> c.p, ret |-> Get(c.p.cachedRootChildren), built |-> FALSE ]
          ELSE rebuildRoot(c, h)
          : c \in { getConfig(p, h) } })

\* getOrderedTabs: the provider after the call, the flat list, and whether
\* the root was rebuilt
getOrderedTabs(p, h) ==
  Value({ [ p |-> r.p, ret |-> flattenItems(r.ret), built |-> r.built ]
          : r \in { getChildren(p, h) } })

\* getChildren(element) that sorts the members again
getChildrenOfResorts(p, h, element) ==
  Value({ [ p |-> c.p,
            ret |-> IF isGroupItem(element) THEN sortTabs(element.tabs, c.ret) ELSE << >> ]
          : c \in { getConfig(p, h) } })

\* getChildren(element) with a node: getConfig() is called first, then the
\* members the group holds are returned, or nothing for a document record
getChildrenOf(p, h, element) ==
  Value({ [ p |-> c.p, ret |-> IF isGroupItem(element) THEN element.tabs ELSE << >> ]
          : c \in { getConfig(p, h) } })

(***************************************************************************)
(* The provider before memoization (the first DocumentTabsProvider of      *)
(* tabsProvider.ts): the root is computed from the tabs and the settings   *)
(* at every call                                                           *)
(***************************************************************************)
\* getConfig: the settings, read at every call
getConfigUncached(h) == h.settings

\* getAllTabs: a record for every tab with a URI, at every call
RECURSIVE getAllTabsUncached(_, _)
getAllTabsUncached(p, tabs) ==
  IF tabs = << >> THEN << >>
  ELSE (IF getTabUri(Head(tabs)) # None THEN << TabItemOf(p, Head(tabs), None) >> ELSE << >>)
         \o getAllTabsUncached(p, Tail(tabs))

\* sortTabs(tabs): sorted by the settings of now
sortTabsUncached(tabs, h) == sortInto(getConfigUncached(h), << >>, tabs)

\* groupTabs(tabs): the buckets in the order of tabs, not sorted again
groupTabsUncached(tabs, h) ==
  Value({ [ name \in groupKeys(tabs, getConfigUncached(h)) |->
              SelectSeq(named, LAMBDA t : Get(t.groupName) = name) ]
          : named \in { mapGroupName(tabs, getConfigUncached(h)) } })

\* getChildren() at root level
getChildrenUncached(p, h) ==
  Value({
    IF getConfigUncached(h).showPinnedSeparately
    THEN (IF SelectSeq(tabs, LAMBDA t : t.isPinned) # << >>
          THEN << pinnedGroupOf(SelectSeq(tabs, LAMBDA t : t.isPinned)) >> ELSE << >>)
           \o (IF getConfigUncached(h).groupBy = "none"
               THEN SelectSeq(tabs, LAMBDA t : ~ t.isPinned)
               ELSE Value({ groupItems(sortNames(DOMAIN groups), groups, getConfigUncached(h))
                            : groups \in { groupTabsUncached(
                                             SelectSeq(tabs, LAMBDA t : ~ t.isPinned), h) } }))
    ELSE IF getConfigUncached(h).groupBy = "none" THEN tabs
    ELSE Value({ groupItems(sortNames(DOMAIN groups), groups, getConfigUncached(h))
                 : groups \in { groupTabsUncached(tabs, h) } })
    : tabs \in { sortTabsUncached(getAllTabsUncached(p, AllTabsOf(h.tabGroups)), h) } })

(***************************************************************************)
(* activate(): the refresh coordinator                                     *)
(***************************************************************************)
\* scheduleRefresh without the test of refreshPending
scheduleRefreshAlwaysArms(c) == [ refreshPending |-> TRUE, timers |-> c.timers + 1 ]

\* scheduleRefresh that sets the flag and arms no timer
scheduleRefreshArmsNoTimer(c) == [ c EXCEPT !.refreshPending = TRUE ]

\* scheduleRefresh, on the coalescing flag and the number of armed timers
scheduleRefresh(c) ==
  IF c.refreshPending THEN c
  ELSE [ refreshPending |-> TRUE, timers |-> c.timers + 1 ]

Coord == [ refreshPending |-> refreshPending, timers |-> timers ]

\* the listener of onDidChangeTabs, on the provider
tabChangeListener(p, opened, closed) ==
  LET q == IF Len(opened) > 0 THEN trackNewTabs(p, opened) ELSE p
  IN IF Len(closed) > 0 THEN removeClosedTabs(q, closed) ELSE q

\* orderedTabs.findIndex((t) => t.uri.toString() === activeUri.toString()):
\* the index, from 0, of the first record of the document, or -1
findIndex(orderedTabs, activeUri) ==
  LET hits == { i \in 1..Len(orderedTabs) :
                  UriToString(orderedTabs[i].uri) = UriToString(activeUri) }
  IN IF hits = { } THEN -1
     ELSE (CHOOSE i \in hits : \A j \in hits : i <= j) - 1

\* nextTab that stays on the last entry
nextIndexStopsAtEnd(orderedTabs, editor) ==
  IF editor # None /\ findIndex(orderedTabs, Get(editor)) # -1
  THEN IF findIndex(orderedTabs, Get(editor)) + 1 < Len(orderedTabs)
       THEN findIndex(orderedTabs, Get(editor)) + 1
       ELSE findIndex(orderedTabs, Get(editor))
  ELSE 0

\* nextTabCommand: the index, from 0, of the entry to show
nextIndex(orderedTabs, editor) ==
  IF editor # None /\ findIndex(orderedTabs, Get(editor)) # -1
  THEN (findIndex(orderedTabs, Get(editor)) + 1) % Len(orderedTabs)
  ELSE 0

\* previousTab that starts from the first entry when the document is absent
prevIndexStartsAtFirst(orderedTabs, editor) ==
  IF editor # None /\ findIndex(orderedTabs, Get(editor)) # -1
  THEN (findIndex(orderedTabs, Get(editor)) - 1 + Len(orderedTabs)) % Len(orderedTabs)
  ELSE 0

\* previousTabCommand: the index, from 0, of the entry to show
prevIndex(orderedTabs, editor) ==
  IF editor # None /\ findIndex(orderedTabs, Get(editor)) # -1
  THEN (findIndex(orderedTabs, Get(editor)) - 1 + Len(orderedTabs)) % Len(orderedTabs)
  ELSE Len(orderedTabs) - 1

(***************************************************************************)
(* Steps                                                                   *)
(***************************************************************************)
Commit(q) ==
  \E p \in { q } :
  /\ tabOpenOrder' = p.tabOpenOrder
  /\ orderCounter' = p.orderCounter
  /\ treeView' = p.treeView
  /\ badge' = p.badge
  /\ cachedAllTabs' = p.cachedAllTabs
  /\ cachedRootChildren' = p.cachedRootChildren
  /\ cachedRootChildrenSignature' = p.cachedRootChildrenSignature
  /\ parentLookupMap' = p.parentLookupMap
  /\ cachedConfig' = p.cachedConfig
  /\ configCacheInvalidateTime' = p.configCacheInvalidateTime
  /\ projectFolderCache' = p.projectFolderCache
  /\ retired' = retired \cup ((DOMAIN tabOpenOrder) \ (DOMAIN p.tabOpenOrder))

Schedule ==
  \E c \in { scheduleRefresh(Coord) } :
  /\ refreshPending' = c.refreshPending
  /\ timers' = c.timers

\* the last step: the operation, whether a root build ran in it, whether
\* its scheduleRefresh found a refresh pending already,
\* the tabs a delta lists as opened and as closed, and whether a root result
\* was cached when the step began
Op(name, opened, closed, rebuilt) ==
  [ op |-> name, opened |-> opened, closed |-> closed, rebuilt |-> rebuilt,
    coalesced |-> refreshPending, hadRoot |-> cachedRootChildren # None ]

RemoveAt(s, i) == SubSeq(s, 1, i - 1) \o SubSeq(s, i + 1, Len(s))

TabCount(groups) == Len(groups[1]) + Len(groups[2])

\* a document delta: the host has changed the panes and delivers the event
Deliver(groups, opened, closed) ==
  /\ tabGroups' = groups
  /\ Commit(tabChangeListener(Self, opened, closed))
  /\ Schedule
  /\ lastOp' = Op("tabsChanged", opened, closed, FALSE)
  /\ returned' = None
  /\ fired' = 0
  /\ UNCHANGED << settings, now >>
  /\ UNCHANGED sessionVars

\* a tab is opened at the end of a pane
OpenTab(g, input) ==
  LET tab == [ input |-> input, isPinned |-> FALSE ] IN
  /\ TabCount(tabGroups) < MaxTabs
  /\ orderCounter < MaxOrder
  /\ Deliver([ tabGroups EXCEPT ![g] = Append(@, tab) ], << tab >>, << >>)

\* a tab is closed
CloseTab(g, i) ==
  /\ i \in 1..Len(tabGroups[g])
  /\ Deliver([ tabGroups EXCEPT ![g] = RemoveAt(@, i) ], << >>, << tabGroups[g][i] >>)

\* a tab is moved to the other pane: one delta that lists it as opened there
\* and as closed here
MoveTab(g, i) ==
  /\ i \in 1..Len(tabGroups[g])
  /\ orderCounter < MaxOrder
  /\ LET tab == tabGroups[g][i]
         moved == [ tab EXCEPT !.isPinned = FALSE ]
     IN Deliver([ tabGroups EXCEPT ![g] = RemoveAt(@, i), ![3 - g] = Append(@, moved) ],
                << moved >>, << tab >>)

\* a document tab is pinned or unpinned: the host moves it to the boundary of
\* the pinned tabs and delivers a delta that lists it as changed only
PinTab(g, i) ==
  /\ i \in 1..Len(tabGroups[g])
  /\ tabGroups[g][i].input \in Uris
  /\ LET tab == tabGroups[g][i]
         rest == RemoveAt(tabGroups[g], i)
         pane == SelectSeq(rest, LAMBDA t : t.isPinned)
                   \o << [ tab EXCEPT !.isPinned = ~ @ ] >>
                   \o SelectSeq(rest, LAMBDA t : ~ t.isPinned)
     IN tabGroups' = [ tabGroups EXCEPT ![g] = pane ]
  /\ Schedule
  /\ lastOp' = Op("tabChanged", << >>, << >>, FALSE)
  /\ returned' = None
  /\ fired' = 0
  /\ UNCHANGED << settings, now, providerVars, retired >>
  /\ UNCHANGED sessionVars

\* the panes are reshuffled: the listener of onDidChangeTabGroups
TabGroupsChanged ==
  /\ tabGroups[1] # tabGroups[2]
  /\ tabGroups' = << tabGroups[2], tabGroups[1] >>
  /\ Schedule
  /\ lastOp' = Op("tabGroupsChanged", << >>, << >>, FALSE)
  /\ returned' = None
  /\ fired' = 0
  /\ UNCHANGED << settings, now, providerVars, retired >>
  /\ UNCHANGED sessionVars

\* a documentTabs setting is changed: the listener of onDidChangeConfiguration
ConfigChanged(config) ==
  /\ config # settings
  /\ \E key \in DOMAIN config : \A other \in DOMAIN config \ { key } : config[other] = settings[other]
  /\ settings' = config
  /\ Schedule
  /\ lastOp' = Op("configChanged", << >>, << >>, FALSE)
  /\ returned' = None
  /\ fired' = 0
  /\ UNCHANGED << tabGroups, now, providerVars, retired >>
  /\ UNCHANGED sessionVars

\* the command documentTabs.refresh
RefreshCommand ==
  /\ Schedule
  /\ lastOp' = Op("refreshCommand", << >>, << >>, FALSE)
  /\ returned' = None
  /\ fired' = 0
  /\ UNCHANGED << hostVars, providerVars, retired >>
  /\ UNCHANGED sessionVars

\* the callback of the zero-delay timer
TimerFires ==
  /\ timers > 0
  /\ timers' = timers - 1
  /\ refreshPending' = FALSE
  /\ Commit(refresh(Self, Host(tabGroups, settings, now)))
  /\ lastOp' = Op("timer", << >>, << >>, FALSE)
  /\ returned' = None
  /\ fired' = 1
  /\ UNCHANGED hostVars
  /\ UNCHANGED sessionVars

\* the host disposes of context.subscriptions: the tree view, the listeners
\* and the commands are released; the timer callback is none of them
DisposeSubscriptions ==
  /\ ~ disposed
  /\ disposed' = TRUE
  /\ lastOp' = Op("dispose", << >>, << >>, FALSE)
  /\ returned' = None
  /\ fired' = 0
  /\ UNCHANGED << hostVars, providerVars, coordVars, retired, activeTextEditor,
                  workspaceState, awaiting, shown, shownFrom, colorCall, treeItem, stored,
                  errorShown, disk, projectCall, hashCall, displayed >>

\* the tree view, or a command, asks for the root children
GetChildrenRoot ==
  \E r \in { getChildren(Self, Host(tabGroups, settings, now)) } :
  /\ Commit(r.p)
  /\ lastOp' = Op("getChildren", << >>, << >>, r.built)
  /\ returned' = Some(r.ret)
  /\ fired' = 0
  /\ UNCHANGED << hostVars, coordVars >>
  /\ UNCHANGED sessionVars

\* getOrderedTabs called by a command: the flat list is returned
GetOrderedTabs ==
  \E r \in { getOrderedTabs(Self, Host(tabGroups, settings, now)) } :
  /\ Commit(r.p)
  /\ lastOp' = Op("getOrderedTabs", << >>, << >>, r.built)
  /\ returned' = Some(r.ret)
  /\ fired' = 0
  /\ UNCHANGED << hostVars, coordVars >>
  /\ UNCHANGED sessionVars

\* revealActiveFile: findTabByUri reads the snapshot
FindTabByUri ==
  /\ Commit(getAllTabs(Self, Host(tabGroups, settings, now)).p)
  /\ lastOp' = Op("findTabByUri", << >>, << >>, FALSE)
  /\ fired' = 0
  /\ UNCHANGED << hostVars, coordVars, returned >>
  /\ UNCHANGED sessionVars

\* trackNewTabs called on the provider, as the test suite calls it
TrackNewTabs(tabs) ==
  /\ orderCounter < MaxOrder
  /\ Commit(trackNewTabs(Self, tabs))
  /\ lastOp' = Op("trackNewTabs", tabs, << >>, FALSE)
  /\ returned' = None
  /\ fired' = 0
  /\ UNCHANGED << hostVars, coordVars >>
  /\ UNCHANGED sessionVars

\* removeClosedTabs called on the provider
RemoveClosedTabs(tabs) ==
  /\ Commit(removeClosedTabs(Self, tabs))
  /\ lastOp' = Op("removeClosedTabs", << >>, tabs, FALSE)
  /\ returned' = None
  /\ fired' = 0
  /\ UNCHANGED << hostVars, coordVars >>
  /\ UNCHANGED sessionVars

\* time passes
Tick ==
  /\ now < MaxTicks * TickMs
  /\ now' = now + TickMs
  /\ lastOp' = Op("tick", << >>, << >>, FALSE)
  /\ fired' = 0
  /\ UNCHANGED << tabGroups, settings, providerVars, coordVars, returned, retired >>
  /\ UNCHANGED sessionVars

\* a navigation command: the list is read, and the entry at the index is
\* handed to showTextDocument, which makes it the active editor
Navigate(name) ==
  \E r \in { getOrderedTabs(Self, Host(tabGroups, settings, now)) } :
  /\ Commit(r.p)
  /\ IF Len(r.ret) = 0
     THEN shown' = None /\ activeTextEditor' = activeTextEditor
     ELSE \E target \in { r.ret[(IF name = "nextTab"
                                   THEN nextIndex(r.ret, activeTextEditor)
                                   ELSE prevIndex(r.ret, activeTextEditor)) + 1].uri } :
            shown' = Some(target) /\ activeTextEditor' = Some(target)
  /\ shownFrom' = activeTextEditor
  /\ lastOp' = Op(name, << >>, << >>, r.built)
  /\ fired' = 0
  /\ UNCHANGED << hostVars, coordVars, returned, workspaceState, awaiting, colorCall,
                  treeItem, stored, errorShown, disk, projectCall, hashCall, displayed, disposed >>

\* the command documentTabs.nextTab
NextTabCommand == Navigate("nextTab")

\* the command documentTabs.previousTab
PreviousTabCommand == Navigate("previousTab")

\* a documentTabs.setTabColor command on a document record: setManualTabColor
\* up to its await, the record is in workspaceState and update() is pending
SetTabColor(uri, color) ==
  /\ awaiting < MaxWrites
  /\ workspaceState' = setManualTabColor(workspaceState, uri, color)
  /\ awaiting' = awaiting + 1
  /\ colorCall' = Some([ uri |-> uri, color |-> color,
                         had |-> UriToString(uri) \in DOMAIN workspaceState,
                         was |-> IF UriToString(uri) \in DOMAIN workspaceState
                                 THEN workspaceState[UriToString(uri)] ELSE "none" ])
  /\ lastOp' = Op("setTabColor", << >>, << >>, FALSE)
  /\ fired' = 0
  /\ UNCHANGED << hostVars, providerVars, coordVars, returned, retired, activeTextEditor,
                  shown, shownFrom, treeItem, stored, errorShown, disk, projectCall, hashCall, displayed, disposed >>

\* workspaceState.update() has settled: setManualTabColor goes on to refresh()
ColorUpdateSettled ==
  /\ awaiting > 0
  /\ awaiting' = awaiting - 1
  /\ Commit(refresh(Self, Host(tabGroups, settings, now)))
  /\ stored' = TRUE
  /\ lastOp' = Op("colorRefresh", << >>, << >>, FALSE)
  /\ returned' = None
  /\ fired' = 1
  /\ UNCHANGED << hostVars, coordVars, activeTextEditor, workspaceState, shown, shownFrom,
                  colorCall, treeItem, errorShown, disk, projectCall, hashCall, displayed, disposed >>

\* the message of the catch block of the setTabColor commands
SetColorFailed ==
  << "F", "a", "i", "l", "e", "d", " ", "t", "o", " ", "s", "e", "t", " ",
     "t", "a", "b", " ", "c", "o", "l", "o", "r" >>

\* workspaceState.update() is rejected: setManualTabColor throws at its await
\* and the command's catch block shows the error.  A record that was stored
\* before was changed in place; where none was stored the host decides
\* whether the rejected record stays
ColorUpdateRejected ==
  /\ awaiting > 0
  /\ awaiting' = awaiting - 1
  /\ workspaceState' \in IF stored \/ awaiting > 1
                         THEN { workspaceState }
                         ELSE { workspaceState, EmptyMap }
  /\ stored' = (stored \/ workspaceState' # EmptyMap)
  /\ errorShown' = Some(SetColorFailed)
  /\ lastOp' = Op("colorRejected", << >>, << >>, FALSE)
  /\ fired' = 0
  /\ UNCHANGED << hostVars, providerVars, coordVars, returned, retired, activeTextEditor,
                  shown, shownFrom, colorCall, treeItem, disk, projectCall, hashCall, displayed, disposed >>

\* what the colour and navigation commands work on
commandVars ==
  << activeTextEditor, workspaceState, awaiting, shown, shownFrom, colorCall, treeItem,
     stored, errorShown >>

\* getProjectFolder(uri) called on the module, as the test suite and
\* getEffectiveTabColor call it
GetProjectFolder(uri) ==
  \E r \in { getProjectFolder(Self, Host(tabGroups, settings, now), uri) } :
  /\ Commit(r.p)
  /\ projectCall' =
       Some([ uri |-> uri, ret |-> r.ret,
              evicted |-> { projectFolderCache[i].key : i \in 1..Len(projectFolderCache) }
                            \ { r.p.projectFolderCache[i].key
                                : i \in 1..Len(r.p.projectFolderCache) } ])
  /\ lastOp' = Op("getProjectFolder", << >>, << >>, FALSE)
  /\ fired' = 0
  /\ UNCHANGED << hostVars, coordVars, returned, commandVars, disk, hashCall, displayed, disposed >>

\* clearProjectFolderCache() called on the module
ClearProjectFolderCache ==
  /\ Commit(clearProjectFolderCache(Self))
  /\ lastOp' = Op("clearProjectFolderCache", << >>, << >>, FALSE)
  /\ fired' = 0
  /\ UNCHANGED << hostVars, coordVars, returned, commandVars, disk, projectCall, hashCall, displayed, disposed >>

\* the host: the files of a directory change, a project file is renamed, the
\* directory is removed or its permissions change
DirectoryChanges(dir, listing) ==
  /\ dir \in DOMAIN disk
  /\ disk[dir] # listing
  /\ disk' = [ disk EXCEPT ![dir] = listing ]
  /\ lastOp' = Op("directoryChanged", << >>, << >>, FALSE)
  /\ fired' = 0
  /\ UNCHANGED << hostVars, providerVars, coordVars, returned, retired, commandVars,
                  projectCall, hashCall, displayed, disposed >>

\* the automatic colour of a key, as the last lines of getEffectiveTabColor
\* compute it
AutoColor(key) ==
  /\ hashCall' = Some([ key |-> key, hash |-> hashString(key),
                        index |-> Mod32(hashString(key), Len(autoColorPalette)),
                        color |-> autoColor(key) ])
  /\ lastOp' = Op("autoColor", << >>, << >>, FALSE)
  /\ fired' = 0
  /\ UNCHANGED << hostVars, providerVars, coordVars, returned, retired, commandVars,
                  disk, projectCall, displayed, disposed >>

\* the tree view asks for the tree item of a document record
GetTreeItem(uri) ==
  \E r \in { getTreeItem(Self, Host(tabGroups, settings, now), workspaceState,
                         TabItemOf(Self, [ input |-> uri, isPinned |-> FALSE ], None)) } :
  /\ Commit(r.p)
  /\ treeItem' = Some(r.ret)
  /\ lastOp' = Op("getTreeItem", << >>, << >>, FALSE)
  /\ fired' = 0
  /\ UNCHANGED << hostVars, coordVars, returned, activeTextEditor, workspaceState, awaiting,
                  shown, shownFrom, colorCall, stored, errorShown, disk, projectCall, hashCall, displayed, disposed >>

\* the vscode.Tab object a record holds, as the host keeps it: the tab of the
\* panes with that identity in its state of now or, once it is closed, the
\* object as the record got it
liveTab(h, tab) ==
  LET hits == { i \in 1..Len(AllTabsOf(h.tabGroups)) : AllTabsOf(h.tabGroups)[i].id = tab.id }
  IN IF hits = {} THEN tab ELSE AllTabsOf(h.tabGroups)[Value(hits)]

\* group.tabs.includes(tab)
includesTab(pane, tab) == \E i \in 1..Len(pane) : pane[i].id = tab.id

\* group.tabs.indexOf(tab), from 1
indexOfTab(pane, tab) == Value({ i \in 1..Len(pane) : pane[i].id = tab.id })

\* the filter of closeOtherTabs without its test of the pin
otherTabsToCloseWithPinned(h, item) ==
  SelectSeq(AllTabsOf(h.tabGroups),
            LAMBDA tab : /\ getTabUri(tab) # None
                         /\ UriToString(getTabUri(tab)) # UriToString(item.uri))

\* closeOtherTabs: the tabs of all panes that show another document and are
\* not pinned
otherTabsToClose(h, item) ==
  SelectSeq(AllTabsOf(h.tabGroups),
            LAMBDA tab : /\ getTabUri(tab) # None
                         /\ UriToString(getTabUri(tab)) # UriToString(item.uri)
                         /\ ~ tab.isPinned)

\* closeTabsToTheRight: the pane that holds the item's tab, sliced after it,
\* without the pinned tabs; nothing when no pane holds the tab
tabsToTheRightToClose(h, item) ==
  LET found == { g \in 1..2 : includesTab(h.tabGroups[g], item.tab) } IN
  IF found = {} THEN << >>
  ELSE LET tabs == h.tabGroups[Value({ g \in found : \A f \in found : g <= f })]
       IN SelectSeq(SubSeq(tabs, indexOfTab(tabs, item.tab) + 1, Len(tabs)),
                    LAMBDA tab : ~ tab.isPinned)

\* closeTabsInGroup: the tabs of the group's records that are not pinned
tabsInGroupToClose(h, item) ==
  SelectSeq([ i \in 1..Len(item.tabs) |-> liveTab(h, item.tabs[i].tab) ],
            LAMBDA tab : ~ tab.isPinned)

\* the tabs a close command of the tree hands to tabGroups.close(), or
\* nothing when the item is not of the kind the command takes
tabsToClose(command, h, item) ==
  CASE command = "closeOtherTabs" ->
         IF isTabItem(item) THEN Some(otherTabsToClose(h, item)) ELSE None
    [] command = "closeTabsToTheRight" ->
         IF isTabItem(item) THEN Some(tabsToTheRightToClose(h, item)) ELSE None
    [] command = "closeTabsInGroup" ->
         IF isGroupItem(item) THEN Some(tabsInGroupToClose(h, item)) ELSE None

CloseCommands == { "closeOtherTabs", "closeTabsToTheRight", "closeTabsInGroup" }

CloseInGroupFailed ==
  << "F", "a", "i", "l", "e", "d", " ", "t", "o", " ", "c", "l", "o", "s", "e", " ",
     "t", "a", "b", "s", " ", "i", "n", " ", "g", "r", "o", "u", "p" >>

\* the host: tabGroups.close(tabs) takes the open tabs among them out of
\* their panes
panesWithout(groups, tabs) ==
  [ g \in 1..2 |->
      SelectSeq(groups[g], LAMBDA t : \A i \in 1..Len(tabs) : tabs[i].id # t.id) ]

\* the tabs among them that are open
openAmong(groups, tabs) ==
  SelectSeq(tabs, LAMBDA t : includesTab(AllTabsOf(groups), t))

\* the nodes of the displayed tree: its root nodes and the records of its
\* groups
displayedItems ==
  IF displayed = None THEN { }
  ELSE { Get(displayed)[i] : i \in 1..Len(Get(displayed)) }
         \cup { flattenItems(Get(displayed))[i] : i \in 1..Len(flattenItems(Get(displayed))) }

\* the tree view asks for the root nodes and displays them
TreeViewShowsRoot ==
  \E r \in { getChildren(Self, Host(tabGroups, settings, now)) } :
  /\ Commit(r.p)
  /\ lastOp' = Op("getChildren", << >>, << >>, r.built)
  /\ returned' = Some(r.ret)
  /\ displayed' = Some(r.ret)
  /\ fired' = 0
  /\ UNCHANGED << hostVars, coordVars, commandVars, disk, projectCall, hashCall, disposed >>

\* the tree view asks for the children of a node it displays
GetChildrenOf(element) ==
  \E r \in { getChildrenOf(Self, Host(tabGroups, settings, now), element) } :
  /\ element \in displayedItems
  /\ Commit(r.p)
  /\ lastOp' = Op("getChildrenOf", << >>, << >>, FALSE)
  /\ returned' = Some(r.ret)
  /\ fired' = 0
  /\ UNCHANGED << hostVars, coordVars, commandVars, disk, projectCall, hashCall, displayed, disposed >>

\* getFileExtension(uri) called on the module, as the test suite, groupTabs
\* and getEffectiveTabColor call it
GetFileExtension(uri) ==
  /\ returned' = Some([ uri |-> uri, ret |-> getFileExtension(uri) ])
  /\ lastOp' = Op("getFileExtension", << >>, << >>, FALSE)
  /\ fired' = 0
  /\ UNCHANGED << hostVars, providerVars, coordVars, retired >>
  /\ UNCHANGED sessionVars

\* revealActiveFile(uri) while the view is visible: the record findTabByUri
\* returns is handed to treeView.reveal(), which asks getParent for it
RevealActiveFile(uri) ==
  \E f \in { findTabByUri(Self, Host(tabGroups, settings, now), uri) } :
  /\ Commit(f.p)
  /\ returned' = IF f.ret = None THEN None
                 ELSE Some([ item |-> Get(f.ret), parent |-> getParent(f.p, Get(f.ret)) ])
  /\ lastOp' = Op("revealActiveFile", << >>, << >>, FALSE)
  /\ fired' = 0
  /\ UNCHANGED << hostVars, coordVars >>
  /\ UNCHANGED sessionVars

\* a close command of the tree on a displayed node.  The host closes the
\* tabs and delivers the delta that lists them as closed; handed a tab that
\* is closed already, it rejects the call and the command shows the error,
\* or it closes the tabs that are open
CloseTabsCommand(command, item) ==
  /\ item \in displayedItems
  /\ \E asked \in { tabsToClose(command, Host(tabGroups, settings, now), item) } :
     \E closed \in { IF asked = None THEN << >> ELSE openAmong(tabGroups, Get(asked)) } :
     \/ /\ closed # << >>
        /\ tabGroups' = panesWithout(tabGroups, closed)
        /\ Commit(tabChangeListener(Self, << >>, closed))
        /\ Schedule
        /\ lastOp' = Op(command, << >>, closed, FALSE)
        /\ UNCHANGED errorShown
     \/ /\ closed = << >>
        /\ IF asked = None THEN TRUE ELSE Get(asked) = closed
        /\ lastOp' = Op(command, << >>, << >>, FALSE)
        /\ UNCHANGED << tabGroups, providerVars, coordVars, retired, errorShown >>
     \/ /\ IF asked = None THEN FALSE ELSE Get(asked) # closed
        /\ errorShown' = Some(CloseInGroupFailed)
        /\ lastOp' = Op(command, << >>, << >>, FALSE)
        /\ UNCHANGED << tabGroups, providerVars, coordVars, retired >>
  /\ returned' = None
  /\ fired' = 0
  /\ UNCHANGED << settings, now, activeTextEditor, workspaceState, awaiting, shown, shownFrom,
                  colorCall, treeItem, stored, disk, projectCall, hashCall, displayed, disposed >>

(***************************************************************************)
(* The extension after activate()                                          *)
(***************************************************************************)
\* the provider as its field initialisers leave it
NewProvider ==
  [ tabOpenOrder |-> EmptyMap, orderCounter |-> 0, treeView |-> FALSE, badge |-> None,
    cachedAllTabs |-> None, cachedRootChildren |-> None,
    cachedRootChildrenSignature |-> None, parentLookupMap |-> EmptyMap,
    cachedConfig |-> None, configCacheInvalidateTime |-> 0,
    projectFolderCache |-> << >> ]

\* new DocumentTabsProvider(context); setTreeView(treeView); refresh()
Activated(h) ==
  refresh(setTreeView(initializeTabOrder(NewProvider, h.tabGroups), h), h)

PinnedFirst(pane) ==
  \A i, j \in 1..Len(pane) : (i < j /\ pane[j].isPinned) => pane[i].isPinned

PanesOver(tabs, n) == UNION { [ 1..k -> tabs ] : k \in 0..n }

\* the panes the editor can show when the extension starts: at most n tabs
\* drawn from a set of tabs, the pinned tabs of a pane first
Layouts(tabs, n) ==
  { groups \in PanesOver(tabs, n) \X PanesOver(tabs, n) :
      /\ TabCount(groups) <= n
      /\ PinnedFirst(groups[1]) /\ PinnedFirst(groups[2]) }

\* the state activate() leaves, for the panes, the settings, the active
\* editor and the stored colours at start-up
StartOn(layouts, prefs, editors, stores, disks) ==
  /\ disk \in disks
  /\ tabGroups \in layouts
  /\ settings \in prefs
  /\ now = 0
  /\ \E p \in { Activated(Host(tabGroups, settings, now)) } :
       /\ tabOpenOrder = p.tabOpenOrder
       /\ orderCounter = p.orderCounter
       /\ treeView = p.treeView
       /\ badge = p.badge
       /\ cachedAllTabs = p.cachedAllTabs
       /\ cachedRootChildren = p.cachedRootChildren
       /\ cachedRootChildrenSignature = p.cachedRootChildrenSignature
       /\ parentLookupMap = p.parentLookupMap
       /\ cachedConfig = p.cachedConfig
       /\ configCacheInvalidateTime = p.configCacheInvalidateTime
       /\ projectFolderCache = p.projectFolderCache
  /\ refreshPending = FALSE
  /\ timers = 0
  /\ lastOp = [ op |-> "activate", opened |-> << >>, closed |-> << >>, rebuilt |-> FALSE,
                coalesced |-> FALSE, hadRoot |-> FALSE ]
  /\ retired = { }
  /\ returned = None
  /\ fired = 1
  /\ activeTextEditor \in editors
  /\ workspaceState \in stores
  /\ awaiting = 0
  /\ shown = None
  /\ shownFrom = None
  /\ colorCall = None
  /\ treeItem = None
  /\ stored = (workspaceState # EmptyMap)
  /\ errorShown = None
  /\ projectCall = None
  /\ hashCall = None
  /\ displayed = None
  /\ disposed = FALSE

\* the same where no directory matters: no document lies in a workspace folder
StartWith(layouts, prefs, editors, stores) ==
  StartOn(layouts, prefs, editors, stores, { NoDisk })

\* the same with no active editor and no stored colour
Start(layouts, prefs) == StartWith(layouts, prefs, { None }, { EmptyMap })

(***************************************************************************)
(* Spec: documents are opened, closed and moved between the panes; the     *)
(* tree view pulls the root and the snapshot.  Preferences are the         *)
(* defaults, tabs are unpinned.                                            *)
(***************************************************************************)
DeltaInputs == { UriA, UriB, NoInput }

DeltaTabs == { t \in Tabs : t.input \in DeltaInputs /\ ~ t.isPinned }

Init == Start(Layouts(DeltaTabs, MaxTabs), { DefaultConfig })

Next ==
  \/ \E g \in Panes, input \in DeltaInputs : OpenTab(g, input)
  \/ \E g \in Panes, i \in 1..MaxTabs : CloseTab(g, i)
  \/ \E g \in Panes, i \in 1..MaxTabs : MoveTab(g, i)
  \/ TimerFires
  \/ GetChildrenRoot
  \/ FindTabByUri

Spec == Init /\ [][Next]_vars

(***************************************************************************)
(* SpecCalls: the methods of the provider called one by one, with empty    *)
(* and with one-element arrays of tabs.                                    *)
(***************************************************************************)
CallTabs == { << >> } \cup { << t >> : t \in DeltaTabs }

NextCalls ==
  \/ \E tabs \in CallTabs : TrackNewTabs(tabs)
  \/ \E tabs \in CallTabs : RemoveClosedTabs(tabs)
  \/ GetChildrenRoot
  \/ FindTabByUri

SpecCalls == Init /\ [][NextCalls]_vars

(***************************************************************************)
(* SpecCoalesce: every kind of change notification, and the timer that     *)
(* scheduleRefresh arms.  The preferences vary in the sort order and in the *)
(* tab count; the tabs show one document or none.                          *)
(***************************************************************************)
CoalesceInputs == { UriA, NoInput }

CoalesceTabs == { t \in Tabs : t.input \in CoalesceInputs /\ ~ t.isPinned }

InitCoalesce == Start(Layouts(CoalesceTabs, MaxTabs), { DefaultConfig })

CoalescePrefs ==
  { c \in ViewConfigs :
      /\ c.sortOrder \in { "alphabetical", "recentlyOpenedFirst" }
      /\ c.groupBy = DefaultConfig.groupBy
      /\ c.showPinnedSeparately = DefaultConfig.showPinnedSeparately
      /\ c.collapseGroupsByDefault = DefaultConfig.collapseGroupsByDefault }

NextCoalesce ==
  \/ \E g \in Panes, input \in CoalesceInputs : OpenTab(g, input)
  \/ \E g \in Panes, i \in 1..MaxTabs : CloseTab(g, i)
  \/ \E g \in Panes, i \in 1..MaxTabs : PinTab(g, i)
  \/ TabGroupsChanged
  \/ \E config \in CoalescePrefs : ConfigChanged(config)
  \/ RefreshCommand
  \/ TimerFires

SpecCoalesce == InitCoalesce /\ [][NextCoalesce]_vars

(***************************************************************************)
(* SpecPrefs: the preferences change while time passes and the tree view   *)
(* pulls the root; the panes stay as they are, a pinned document first.    *)
(***************************************************************************)
PrefsPane ==
  [ i \in 1..MaxTabs |->
      IF i = 1 THEN [ input |-> UriA, isPinned |-> TRUE ]
      ELSE [ input |-> IF i = 2 THEN UriB ELSE UriC, isPinned |-> FALSE ] ]

PrefsChoices ==
  { c \in ViewConfigs :
      /\ c.sortOrder \in { "alphabetical", "recentlyOpenedFirst" }
      /\ c.groupBy \in { "none", "folder" }
      /\ c.showTabCount = DefaultConfig.showTabCount }

InitPrefs == Start({ << PrefsPane, << >> >> }, { DefaultConfig })

NextPrefs ==
  \/ \E config \in PrefsChoices : ConfigChanged(config)
  \/ Tick
  \/ GetChildrenRoot
  \/ TimerFires

SpecPrefs == InitPrefs /\ [][NextPrefs]_vars

(***************************************************************************)
(* SpecBuild: the root is built for every layout of documents, pinned or   *)
(* not, and every combination of the preferences of the signature; the     *)
(* refresh command drops the caches.                                       *)
(***************************************************************************)
BuildTabs == { t \in Tabs : t.input \in Uris }

BuildPrefs == { c \in ViewConfigs : c.showTabCount = DefaultConfig.showTabCount }

InitBuild == Start(Layouts(BuildTabs, MaxTabs), BuildPrefs)

NextBuild ==
  \/ RefreshCommand
  \/ TimerFires
  \/ GetChildrenRoot

SpecBuild == InitBuild /\ [][NextBuild]_vars

(***************************************************************************)
(* SpecOrder: documents are opened, closed and moved while the root is     *)
(* built in the two orders of opening, ungrouped or grouped by folder.     *)
(***************************************************************************)
OrderInputs == { UriA, UriB }

OrderTabs == { t \in Tabs : t.input \in OrderInputs /\ ~ t.isPinned }

OrderPrefs ==
  { c \in ViewConfigs :
      /\ c.sortOrder \in { "recentlyOpenedFirst", "recentlyOpenedLast" }
      /\ c.groupBy \in { "none", "folder" }
      /\ c.showPinnedSeparately = DefaultConfig.showPinnedSeparately
      /\ c.showTabCount = DefaultConfig.showTabCount
      /\ c.collapseGroupsByDefault = DefaultConfig.collapseGroupsByDefault }

InitOrder == Start(Layouts(OrderTabs, MaxTabs), OrderPrefs)

NextOrder ==
  \/ \E g \in Panes, input \in OrderInputs : OpenTab(g, input)
  \/ \E g \in Panes, i \in 1..MaxTabs : CloseTab(g, i)
  \/ \E g \in Panes, i \in 1..MaxTabs : MoveTab(g, i)
  \/ TimerFires
  \/ GetChildrenRoot

SpecOrder == InitOrder /\ [][NextOrder]_vars

(***************************************************************************)
(* SpecNav: the navigation commands walk the displayed order, for every    *)
(* layout of documents, pinned or not, and every active editor.            *)
(***************************************************************************)
NavPrefs ==
  { c \in ViewConfigs :
      /\ c.sortOrder \in { "alphabetical", "recentlyOpenedFirst" }
      /\ c.showTabCount = DefaultConfig.showTabCount
      /\ c.collapseGroupsByDefault = DefaultConfig.collapseGroupsByDefault }

NavEditors == { None } \cup { Some(u) : u \in Uris }

InitNav == StartWith(Layouts(BuildTabs, MaxTabs), NavPrefs, NavEditors, { EmptyMap })

NextNav ==
  \/ NextTabCommand
  \/ PreviousTabCommand
  \/ FindTabByUri

SpecNav == InitNav /\ [][NextNav]_vars

(***************************************************************************)
(* SpecColor: manual colours are set and cleared while the tree view asks  *)
(* for the root and for tree items, with and without colouring by          *)
(* extension.                                                              *)
(***************************************************************************)
ColorInputs == { UriA, UriM }

ColorTabs == [ input : ColorInputs, isPinned : { FALSE } ]

ColorChoices == { "none", "gold", "pink" }

\* one pane, which shows a document once
ColorLayouts ==
  { groups \in Layouts(ColorTabs, MaxTabs) :
      /\ groups[2] = << >>
      /\ \A i, j \in 1..Len(groups[1]) : groups[1][i] = groups[1][j] => i = j }

ColorPrefs ==
  { c \in Configs : \A key \in (DOMAIN c) \ { "colorBy" } : c[key] = DefaultConfig[key] }

InitColor == StartWith(ColorLayouts, ColorPrefs, { None }, { EmptyMap })

NextColor ==
  \/ \E uri \in ColorInputs, color \in ColorChoices : SetTabColor(uri, color)
  \/ ColorUpdateSettled
  \/ GetChildrenRoot
  \/ \E uri \in ColorInputs : GetTreeItem(uri)

SpecColor == InitColor /\ [][NextColor]_vars

\* the colour commands with a store whose write may be rejected
WriteStores == { EmptyMap, MapSet(EmptyMap, UriToString(UriA), "gold") }

InitWrite == StartWith(ColorLayouts, ColorPrefs, { None }, WriteStores)

NextWrite ==
  \/ \E uri \in ColorInputs, color \in ColorChoices : SetTabColor(uri, color)
  \/ ColorUpdateSettled
  \/ ColorUpdateRejected
  \/ \E uri \in ColorInputs : GetTreeItem(uri)

SpecWrite == InitWrite /\ [][NextWrite]_vars

(***************************************************************************)
(* SpecSeed: the ledger as the constructor seeds it, for every layout of   *)
(* up to MaxSeeded tabs, a document possibly shown by more than one tab.   *)
(***************************************************************************)
SeedTabs == OrderTabs \cup { [ input |-> NoInput, isPinned |-> FALSE ] }

InitSeed == Start(Layouts(SeedTabs, MaxSeeded), { DefaultConfig })

SeedInputs == OrderInputs \cup { NoInput }

NextSeed ==
  \/ \E g \in Panes, input \in SeedInputs : OpenTab(g, input)
  \/ \E g \in Panes, i \in 1..MaxSeeded : CloseTab(g, i)
  \/ TimerFires
  \/ GetChildrenRoot

SpecSeed == InitSeed /\ [][NextSeed]_vars

(***************************************************************************)
(* SpecBadge: tabs open and close and the show-count preference changes;   *)
(* the coalesced refresh sets the badge.                                   *)
(***************************************************************************)
BadgePrefs ==
  { c \in Configs : \A key \in (DOMAIN c) \ { "showTabCount" } : c[key] = DefaultConfig[key] }

BadgeInputs == { UriA, NoInput }

BadgeTabs == { t \in Tabs : t.input \in BadgeInputs /\ ~ t.isPinned }

InitBadge == Start(Layouts(BadgeTabs, MaxTabs), BadgePrefs)

NextBadge ==
  \/ \E g \in Panes, input \in BadgeInputs : OpenTab(g, input)
  \/ \E g \in Panes, i \in 1..MaxTabs : CloseTab(g, i)
  \/ \E config \in BadgePrefs : ConfigChanged(config)
  \/ GetChildrenRoot
  \/ TimerFires

SpecBadge == InitBadge /\ [][NextBadge]_vars

(***************************************************************************)
(* SpecProject: getProjectFolder called for documents inside and outside   *)
(* the workspace folder /w, on every disk of ProjectDisks.                 *)
(***************************************************************************)
\* /w/a/m.ts, /w/Src/b/n.ts, /w/Src/k.ts, /w/r.ts and, outside, /x/e.ts
UriInA == << "/", "w", "/", "a", "/", "m", ".", "t", "s" >>
UriInSrcB == << "/", "w", "/", "S", "r", "c", "/", "b", "/", "n", ".", "t", "s" >>
UriInSrc == << "/", "w", "/", "S", "r", "c", "/", "k", ".", "t", "s" >>
UriInRoot == << "/", "w", "/", "r", ".", "t", "s" >>
UriExternal == << "/", "x", "/", "e", ".", "t", "s" >>

ProjectUris == { UriInA, UriInSrcB, UriInSrc, UriInRoot, UriExternal }

\* listings: no project file (xproj has no dot before proj), a project file
\* after another file, two project files
NoProject == Listed(<< << "x", "p", "r", "o", "j" >> >>)
OneProject ==
  Listed(<< << "n", ".", "m", "d" >>, << "A", ".", "c", "s", "p", "r", "o", "j" >> >>)
TwoProjects ==
  Listed(<< << "B", ".", "c", ".", "F", "s", "P", "r", "o", "j" >>,
            << "A", ".", "c", "s", "p", "r", "o", "j" >> >>)

\* the directories of the documents, each with the listings it may have
ProjectDisks ==
  { [ dir \in { dirname(UriInA), dirname(UriInSrcB), dirname(UriInSrc), WorkspacePath } |->
        IF dir = dirname(UriInA) THEN a
        ELSE IF dir = dirname(UriInSrcB) THEN b
        ELSE IF dir = dirname(UriInSrc) THEN s
        ELSE w ]
    : a \in { NoProject, OneProject, Unreadable },
      b \in { NoProject, TwoProjects, Unreadable, Missing },
      s \in { NoProject, OneProject, Unreadable },
      w \in { NoProject, TwoProjects, Unreadable } }

NoTabs == << << >>, << >> >>

InitProject == StartOn({ NoTabs }, { DefaultConfig }, { None }, { EmptyMap }, ProjectDisks)

NextProject ==
  \/ \E uri \in ProjectUris : GetProjectFolder(uri)
  \/ ClearProjectFolderCache

SpecProject == InitProject /\ [][NextProject]_vars

(***************************************************************************)
(* SpecRename: two documents of the workspace are open, grouped or         *)
(* coloured by project or not; project files come, go and are renamed; the *)
(* refresh command is run.                                                 *)
(***************************************************************************)
RenameUris == { UriInA, UriInSrc }

RenamePane ==
  << [ input |-> UriInA, isPinned |-> FALSE ], [ input |-> UriInSrc, isPinned |-> FALSE ] >>

RenameListings == { NoProject, OneProject, TwoProjects }

RenameDisks ==
  { [ dir \in { dirname(UriInA), dirname(UriInSrc), WorkspacePath } |->
        IF dir = dirname(UriInA) THEN a ELSE IF dir = dirname(UriInSrc) THEN s ELSE NoProject ]
    : a \in RenameListings, s \in RenameListings }

RenamePrefs ==
  { DefaultConfig, [ DefaultConfig EXCEPT !.groupBy = "project" ],
    [ DefaultConfig EXCEPT !.colorBy = "project" ] }

InitRename ==
  StartOn({ << RenamePane, << >> >> }, RenamePrefs, { None }, { EmptyMap }, RenameDisks)

NextRename ==
  \/ \E uri \in RenameUris, listing \in RenameListings :
       DirectoryChanges(dirname(uri), listing)
  \/ \E uri \in RenameUris : GetProjectFolder(uri)
  \/ RefreshCommand
  \/ TimerFires
  \/ FindTabByUri

SpecRename == InitRename /\ [][NextRename]_vars

(***************************************************************************)
(* SpecHash: the automatic colour of every key of up to MaxKeyLen          *)
(* characters of HashChars.                                                *)
(***************************************************************************)
HashChars == { ".", "s", "Z", "7" }

\* the keys are hashed one after the other: the empty key, and each key
\* with one more character than the one hashed before
HashKeys ==
  { << >> } \cup
    { Append(Get(hashCall).key, c) : c \in IF hashCall # None
                                               /\ Len(Get(hashCall).key) < MaxKeyLen
                                            THEN HashChars ELSE { } }

InitHash == StartOn({ NoTabs }, { DefaultConfig }, { None }, { EmptyMap }, { NoDisk })

NextHash == \E key \in HashKeys : AutoColor(key)

SpecHash == InitHash /\ [][NextHash]_vars

\* The close commands of the tree under the default settings: panes with a
\* pinned and an unpinned tab of one document, a document shown in both
\* panes and a tab without a document, each tab with its identity; tabs are
\* pinned, unpinned and closed while the tree view displays the root nodes
\* it asked for last, before the timer of the scheduled refresh runs
ClosePanes ==
  { << << [ input |-> UriC, isPinned |-> TRUE ], [ input |-> UriC, isPinned |-> FALSE ] >>,
       << [ input |-> UriA, isPinned |-> FALSE ] >> >>,
    << << [ input |-> UriA, isPinned |-> FALSE ], [ input |-> UriC, isPinned |-> FALSE ] >>,
       << [ input |-> UriA, isPinned |-> FALSE ] >> >>,
    << << [ input |-> UriA, isPinned |-> TRUE ], [ input |-> UriC, isPinned |-> TRUE ],
          [ input |-> UriC, isPinned |-> FALSE ] >>, << >> >>,
    << << [ input |-> UriC, isPinned |-> FALSE ], [ input |-> NoInput, isPinned |-> FALSE ] >>,
       << [ input |-> UriA, isPinned |-> FALSE ] >> >> }

\* the panes with the identities of their tabs
WithIds(groups) ==
  [ g \in 1..2 |->
      [ i \in 1..Len(groups[g]) |->
          [ input |-> groups[g][i].input, isPinned |-> groups[g][i].isPinned,
            id |-> (IF g = 1 THEN 0 ELSE Len(groups[1])) + i ] ] ]

InitClose ==
  StartOn({ WithIds(groups) : groups \in ClosePanes },
          { DefaultConfig }, { None }, { EmptyMap }, { NoDisk })

NextClose ==
  \/ \E g \in 1..2, i \in 1..MaxSeeded : PinTab(g, i)
  \/ \E g \in 1..2, i \in 1..MaxSeeded : CloseTab(g, i)
  \/ TreeViewShowsRoot
  \/ \E command \in CloseCommands, item \in displayedItems : CloseTabsCommand(command, item)

SpecClose == InitClose /\ [][NextClose]_vars

\* The tree view expands the nodes it displays while the preferences change
\* and time passes
ExpandPrefs ==
  { c \in ViewConfigs :
      /\ c.sortOrder \in { "alphabetical", "recentlyOpenedFirst" }
      /\ c.groupBy \in { "none", "folder" }
      /\ c.showPinnedSeparately = DefaultConfig.showPinnedSeparately
      /\ c.collapseGroupsByDefault = DefaultConfig.collapseGroupsByDefault
      /\ c.showTabCount = DefaultConfig.showTabCount }

\* one pane: a pinned document and two documents of one folder
ExpandPane ==
  << [ input |-> UriC, isPinned |-> TRUE ], [ input |-> UriB, isPinned |-> FALSE ],
     [ input |-> UriA, isPinned |-> FALSE ] >>

InitExpand == Start({ << ExpandPane, << >> >> }, { DefaultConfig })

NextExpand ==
  \/ \E config \in ExpandPrefs : ConfigChanged(config)
  \/ Tick
  \/ TreeViewShowsRoot
  \/ TimerFires
  \/ \E element \in displayedItems : GetChildrenOf(element)

SpecExpand == InitExpand /\ [][NextExpand]_vars

\* getFileExtension on the paths of up to MaxKeyLen characters after the
\* leading slash, over the characters of PathChars
PathChars == { "/", ".", "g", "T" }

\* the paths are asked for one after the other: the root, and each path with
\* one more character than the one asked for before
ExtensionPaths ==
  { << "/" >> } \cup
    { Append(Get(returned).uri, c) : c \in IF returned # None
                                              /\ Len(Get(returned).uri) <= MaxKeyLen
                                           THEN PathChars ELSE { } }

InitExtension == StartOn({ NoTabs }, { DefaultConfig }, { None }, { EmptyMap }, { NoDisk })

NextExtension == \E uri \in ExtensionPaths : GetFileExtension(uri)

SpecExtension == InitExtension /\ [][NextExtension]_vars

\* The coordinator with its scheduling: the callback of a timer that
\* setTimeout(0) has armed runs in the end, whatever else goes on
LivePrefs ==
  { c \in ViewConfigs :
      /\ c.sortOrder = DefaultConfig.sortOrder
      /\ c.groupBy \in { "none", "folder" }
      /\ c.showPinnedSeparately = DefaultConfig.showPinnedSeparately
      /\ c.collapseGroupsByDefault = DefaultConfig.collapseGroupsByDefault
      /\ c.showTabCount = DefaultConfig.showTabCount }

\* one document is open when the extension starts
InitLive ==
  Start({ << << [ input |-> UriA, isPinned |-> FALSE ] >>, << >> >> }, { DefaultConfig })

NextLive ==
  \/ OpenTab(1, UriC)
  \/ \E i \in 1..MaxTabs : CloseTab(1, i)
  \/ \E config \in LivePrefs : ConfigChanged(config)
  \/ RefreshCommand
  \/ TimerFires
  \/ GetChildrenRoot

SpecLive == InitLive /\ [][NextLive]_vars /\ WF_vars(TimerFires)

\* The active editor changes while documents are opened and closed and the
\* tree view pulls the root: folder grouping, the pinned shown apart
InitReveal == Start(Layouts(BuildTabs, MaxTabs), { DefaultConfig })

NextReveal ==
  \/ \E g \in Panes, input \in Uris : OpenTab(g, input)
  \/ \E g \in Panes, i \in 1..MaxTabs : CloseTab(g, i)
  \/ TimerFires
  \/ GetChildrenRoot
  \/ \E uri \in Uris : RevealActiveFile(uri)

SpecReveal == InitReveal /\ [][NextReveal]_vars

\* The memoized root against the root computed anew: documents are opened,
\* closed and pinned, the preferences change, time passes, and the tree view
\* pulls the root at any moment
CachePrefs ==
  { c \in ViewConfigs :
      /\ c.sortOrder \in { "alphabetical", "recentlyOpenedFirst" }
      /\ c.groupBy \in { "none", "folder" }
      /\ c.showPinnedSeparately = DefaultConfig.showPinnedSeparately
      /\ c.collapseGroupsByDefault = DefaultConfig.collapseGroupsByDefault
      /\ c.showTabCount = DefaultConfig.showTabCount }

\* one document is open when the extension starts
InitCache ==
  Start({ << << [ input |-> UriB, isPinned |-> FALSE ] >>, << >> >> }, { DefaultConfig })

NextCache ==
  \/ OpenTab(1, UriC)
  \/ \E i \in 1..MaxTabs : CloseTab(1, i)
  \/ \E i \in 1..MaxTabs : PinTab(1, i)
  \/ \E config \in CachePrefs : ConfigChanged(config)
  \/ TimerFires
  \/ GetChildrenRoot

SpecCache == InitCache /\ [][NextCache]_vars


(***************************************************************************)
(* SpecFlat: the flat list is asked for in every mode, over every layout   *)
(* of the panes, before and after the tree is refreshed.                   *)
(***************************************************************************)
InitFlat == Start(Layouts(BuildTabs, MaxTabs), BuildPrefs)

NextFlat ==
  \/ RefreshCommand
  \/ GetChildrenRoot
  \/ GetOrderedTabs

SpecFlat == InitFlat /\ [][NextFlat]_vars


(***************************************************************************)
(* SpecCycle: the set of open documents stays as it is and nextTab is      *)
(* invoked again and again, each call making its target the active         *)
(* document.  A command that is invoked is carried out.                    *)
(***************************************************************************)
CyclePanes ==
  { << << [ input |-> UriB, isPinned |-> FALSE ], [ input |-> UriA, isPinned |-> FALSE ] >>,
       << [ input |-> UriC, isPinned |-> FALSE ] >> >>,
    << << [ input |-> UriA, isPinned |-> TRUE ], [ input |-> UriB, isPinned |-> FALSE ] >>,
       << [ input |-> UriC, isPinned |-> FALSE ] >> >>,
    << << [ input |-> UriA, isPinned |-> FALSE ], [ input |-> UriB, isPinned |-> FALSE ] >>,
       << [ input |-> UriA, isPinned |-> FALSE ] >> >>,
    << << [ input |-> UriA, isPinned |-> TRUE ], [ input |-> UriB, isPinned |-> FALSE ] >>,
       << [ input |-> UriA, isPinned |-> FALSE ] >> >> }

InitCycle == StartWith(CyclePanes, NavPrefs, { Some(UriA), Some(UriB) }, { EmptyMap })

NextCycle == NextTabCommand

SpecCycle == InitCycle /\ [][NextCycle]_vars /\ WF_vars(NextTabCommand)


(***************************************************************************)
(* SpecOverride: a document is closed and opened again while its manual    *)
(* colour is set and cleared and the tree view asks for its tree item.     *)
(***************************************************************************)
InitOverride ==
  Start({ << << [ input |-> UriA, isPinned |-> FALSE ] >>, << >> >> }, { DefaultConfig })

NextOverride ==
  \/ OpenTab(1, UriA)
  \/ \E i \in 1..MaxTabs : CloseTab(1, i)
  \/ \E color \in { "none", "gold" } : SetTabColor(UriA, color)
  \/ ColorUpdateSettled
  \/ TimerFires
  \/ GetTreeItem(UriA)

SpecOverride == InitOverride /\ [][NextOverride]_vars


(***************************************************************************)
(* SpecPrecompute: two documents of the workspace are open; the grouping   *)
(* and colouring modes and the tab count change, time passes, and the      *)
(* tree view asks for the root and for the record of a document, while     *)
(* labels are asked for and cached.                                        *)
(***************************************************************************)
PrecomputeModes ==
  { DefaultConfig, [ DefaultConfig EXCEPT !.groupBy = "folder" ],
    [ DefaultConfig EXCEPT !.groupBy = "project" ],
    [ DefaultConfig EXCEPT !.colorBy = "project" ] }

PrecomputePrefs ==
  { [ c EXCEPT !.showTabCount = count ] : c \in PrecomputeModes, count \in BOOLEAN }

PrecomputeDisk ==
  [ dir \in { dirname(UriInA), dirname(UriInSrc), WorkspacePath } |->
      IF dir = dirname(UriInA) THEN OneProject
      ELSE IF dir = dirname(UriInSrc) THEN TwoProjects ELSE NoProject ]

InitPrecompute ==
  StartOn({ << RenamePane, << >> >> }, PrecomputePrefs, { None }, { EmptyMap },
          { PrecomputeDisk })

NextPrecompute ==
  \/ \E config \in PrecomputePrefs : ConfigChanged(config)
  \/ \E uri \in RenameUris : GetProjectFolder(uri)
  \/ Tick
  \/ TimerFires
  \/ GetChildrenRoot
  \/ FindTabByUri

SpecPrecompute == InitPrecompute /\ [][NextPrecompute]_vars


(***************************************************************************)
(* SpecShutdown: a document is opened and closed, the preferences change   *)
(* and the refresh command is run until the host disposes of the           *)
(* subscriptions; after that no listener and no command runs.  A timer     *)
(* that is armed fires.                                                    *)
(***************************************************************************)
InitShutdown ==
  Start({ << << [ input |-> UriA, isPinned |-> FALSE ] >>, << >> >> }, { DefaultConfig })

NextShutdown ==
  \/ ~ disposed /\ OpenTab(1, UriC)
  \/ ~ disposed /\ \E i \in 1..MaxTabs : CloseTab(1, i)
  \/ ~ disposed /\ \E config \in LivePrefs : ConfigChanged(config)
  \/ ~ disposed /\ RefreshCommand
  \/ ~ disposed /\ GetChildrenRoot
  \/ DisposeSubscriptions
  \/ TimerFires

SpecShutdown == InitShutdown /\ [][NextShutdown]_vars /\ WF_vars(TimerFires)

(***************************************************************************)
(* Properties                                                              *)
(***************************************************************************)
\* the tabs of all panes that show a document
DocumentTabs(groups) == SelectSeq(AllTabsOf(groups), LAMBDA t : getTabUri(t) # None)

\* the documents open in some pane
OpenUris(groups) == { getTabUri(DocumentTabs(groups)[i]) : i \in 1..Len(DocumentTabs(groups)) }

\* how many elements of a sequence satisfy a test
CountIf(seq, Test(_)) == Len(SelectSeq(seq, Test))

\* the records of a root result are the live document tabs, one for one
ShowsLiveDocuments(children, groups) ==
  \A u \in Uris :
    CountIf(flattenItems(children), LAMBDA t : t.uri = u)
      = CountIf(DocumentTabs(groups), LAMBDA t : getTabUri(t) = u)

\* C1: every currently open document with a resolvable identity has its
\* entry in the ordering ledger, whatever deltas the handler has received.
C1_OpenDocumentsAreTracked ==
  \A u \in OpenUris(tabGroups) : UriToString(u) \in DOMAIN tabOpenOrder

\* C2: sequence numbers are issued in strictly increasing order and are never
\* reused.  The counter never decreases; an entry written in a step gets a
\* sequence at or above the counter before the step, hence above every
\* sequence issued before; the documents a delta lists as closed read as 0
\* afterwards; tracked sequences lie below the counter and are distinct.
C2_SequencesIncreaseAndAreNotReused ==
  /\ [](\A k \in DOMAIN tabOpenOrder :
          /\ tabOpenOrder[k] < orderCounter
          /\ \A l \in DOMAIN tabOpenOrder : tabOpenOrder[l] = tabOpenOrder[k] => l = k)
  /\ [][/\ orderCounter' >= orderCounter
        /\ \A k \in DOMAIN tabOpenOrder' :
             (k \notin DOMAIN tabOpenOrder \/ tabOpenOrder'[k] # tabOpenOrder[k])
               => /\ tabOpenOrder'[k] >= orderCounter
                  /\ \A l \in DOMAIN tabOpenOrder : tabOpenOrder'[k] > tabOpenOrder[l]
        /\ lastOp'.op = "tabsChanged"
             => \A i \in 1..Len(lastOp'.closed) :
                  getTabUri(lastOp'.closed[i]) # None
                    => sequenceOf(tabOpenOrder', UriToString(getTabUri(lastOp'.closed[i]))) = 0
       ]_vars

\* C2, its case: a document whose entry was removed is tracked again, next to
\* another tracked document
C2_Witness ==
  \E k \in retired \cap DOMAIN tabOpenOrder :
    \E l \in DOMAIN tabOpenOrder : l # k /\ tabOpenOrder[k] > tabOpenOrder[l]

\* C3: a document delta delivered after a root build drops the snapshot, the
\* root result with its signature and the parent-lookup index, and a root
\* result returned afterwards shows exactly the documents that are open:
\* every opened one and none that is closed in every pane.
C3_DeltaInvalidatesAndRootShowsLiveDocuments ==
  /\ [][lastOp'.op = "tabsChanged"
          => /\ cachedAllTabs' = None
             /\ cachedRootChildren' = None
             /\ cachedRootChildrenSignature' = None
             /\ parentLookupMap' = EmptyMap]_vars
  /\ [](returned # None => ShowsLiveDocuments(Get(returned), tabGroups))

\* C3, its case: a root result was cached when the delta arrived
C3_Witness ==
  /\ lastOp.op = "tabsChanged"
  /\ lastOp.hadRoot
  /\ Len(lastOp.opened) + Len(lastOp.closed) > 0
  /\ cachedRootChildren = None

\* C3, its case continued: the root is rebuilt and shows a document opened since
C3_WitnessRebuilt ==
  /\ lastOp.op = "getChildren"
  /\ lastOp.rebuilt
  /\ retired # { }
  /\ Len(flattenItems(Get(returned))) = MaxTabs

\* a call of trackNewTabs or removeClosedTabs with an empty array
EmptyCall(op) ==
  /\ op.op \in { "trackNewTabs", "removeClosedTabs" }
  /\ op.opened = << >>
  /\ op.closed = << >>

\* C4: trackNewTabs([]) and removeClosedTabs([]) change nothing in the
\* provider (ledger, counter, snapshot, root result and signature,
\* parent-lookup index), and a root-level getChildren that follows returns
\* the root result that was cached before the call, without a rebuild.
C4_EmptyCallsAreNoOps ==
  [][/\ EmptyCall(lastOp') => UNCHANGED providerVars
     /\ (EmptyCall(lastOp) /\ lastOp.hadRoot /\ lastOp'.op = "getChildren")
          => /\ returned' = cachedRootChildren
             /\ ~ lastOp'.rebuilt
             /\ UNCHANGED << cachedRootChildren, cachedRootChildrenSignature,
                             parentLookupMap >>
    ]_vars

\* C4, its case: an empty call has run on a provider that holds a root result
\* of several documents
C4_Witness ==
  /\ EmptyCall(lastOp)
  /\ lastOp.hadRoot
  /\ cachedRootChildren # None
  /\ Len(flattenItems(Get(cachedRootChildren))) > 1

\* the operations that end in scheduleRefresh
Notifications ==
  { "tabsChanged", "tabChanged", "tabGroupsChanged", "configChanged", "refreshCommand" }

\* C5: however many change notifications are handled before the timer runs,
\* one timer is armed: a notification leaves exactly one timer armed and
\* neither refreshes nor notifies the tree; the timer's callback is the one
\* provider refresh and the one tree-changed notification of the batch, and
\* it leaves no timer armed.
C5_NotificationsCoalesceIntoOneRefresh ==
  /\ [](timers = IF refreshPending THEN 1 ELSE 0)
  /\ [][/\ lastOp'.op \in Notifications
            => /\ refreshPending' /\ timers' = 1
               /\ fired' = 0
               /\ (lastOp'.coalesced => UNCHANGED coordVars)
        /\ lastOp'.op = "timer"
            => /\ refreshPending /\ ~ refreshPending' /\ timers' = 0
               /\ fired' = 1
               /\ cachedRootChildren' = None /\ parentLookupMap' = EmptyMap
               /\ badge' = IF settings.showTabCount
                           THEN Some(Len(DocumentTabs(tabGroups))) ELSE None
        /\ fired' = 1 => lastOp'.op = "timer"
      ]_vars

\* C5, its case: a notification of another kind arrives while the refresh of
\* a document delta is pending
C5_Witness ==
  /\ lastOp.op \in Notifications \ { "tabsChanged" }
  /\ lastOp.coalesced
  /\ timers = 1
  /\ cachedAllTabs = None
  /\ retired # { }

\* the configuration getConfig() returns: the copy it cached less than
\* ConfigCacheMs ago and that was not invalidated since, else the preferences
ConfigRead ==
  IF cachedConfig # None /\ now - configCacheInvalidateTime < ConfigCacheMs
  THEN Get(cachedConfig) ELSE settings

\* a root-level getChildren finds a root result cached under the signature of
\* the configuration config
CachedFor(config) ==
  cachedRootChildren # None /\ cachedRootChildrenSignature = Some(signatureOf(config))

\* C6 as stated: a root-level getChildren rebuilds whenever the signature of
\* the current preferences differs from the signature stored with the cached
\* result, and returns the cached result only when the two are equal.
C6_RebuildsWhenPreferencesDiffer ==
  [][lastOp'.op = "getChildren"
       => IF CachedFor(settings)
          THEN ~ lastOp'.rebuilt /\ returned' = cachedRootChildren
          ELSE /\ lastOp'.rebuilt
               /\ cachedRootChildrenSignature' = Some(signatureOf(settings))
    ]_vars

\* C6 amended: a root-level getChildren rebuilds whenever the signature of the
\* configuration getConfig() returns (the preferences, or the copy of them
\* cached less than 100 ms ago and not invalidated since) differs from the
\* signature stored with the cached result, also when nothing was invalidated
\* since the preferences changed, and stores the result under that signature;
\* it returns the cached result only when the two signatures are equal.
C6_RebuildsWhenConfigReadDiffers ==
  [][lastOp'.op = "getChildren"
       => IF CachedFor(ConfigRead)
          THEN /\ ~ lastOp'.rebuilt /\ returned' = cachedRootChildren
               /\ UNCHANGED << cachedRootChildren, cachedRootChildrenSignature >>
          ELSE /\ lastOp'.rebuilt
               /\ cachedRootChildrenSignature' = Some(signatureOf(ConfigRead))
               /\ returned' = cachedRootChildren'
    ]_vars

\* C6, its case: the root is rebuilt for changed preferences while the refresh
\* their change has scheduled is still pending, so nothing was invalidated
C6_Witness ==
  /\ lastOp.op = "getChildren"
  /\ lastOp.rebuilt
  /\ lastOp.hadRoot
  /\ refreshPending
  /\ cachedRootChildrenSignature = Some(signatureOf(settings))
  /\ signatureOf(settings) # signatureOf(DefaultConfig)

\* C7 as stated: a root-level getChildren that follows another one with no
\* change event or invalidation between them returns the same result without
\* rebuilding and leaves the parent-lookup index unchanged.
C7_SecondCallReturnsMemoized ==
  [][(returned # None /\ lastOp'.op = "getChildren")
       => /\ returned' = returned
          /\ ~ lastOp'.rebuilt
          /\ parentLookupMap' = parentLookupMap
    ]_vars

\* C7 amended: a root-level getChildren that follows another one with no
\* change event or invalidation between them, and for which getConfig()
\* returns a configuration of the same signature as for the first, returns
\* the same result without rebuilding and leaves the parent-lookup index
\* unchanged.
C7_SecondCallSameConfigReturnsMemoized ==
  [][(/\ returned # None
      /\ lastOp'.op = "getChildren"
      /\ cachedRootChildrenSignature = Some(signatureOf(ConfigRead)))
       => /\ returned' = returned
          /\ ~ lastOp'.rebuilt
          /\ parentLookupMap' = parentLookupMap
          /\ UNCHANGED << cachedAllTabs, cachedRootChildren, cachedRootChildrenSignature >>
    ]_vars

\* C7, its case: a second call has returned the memoized result of groups, and
\* time has passed between the two calls
C7_Witness ==
  /\ lastOp.op = "getChildren"
  /\ ~ lastOp.rebuilt
  /\ returned = cachedRootChildren
  /\ now > 0
  /\ DOMAIN parentLookupMap # { }

\* a sequence of tab records is in the order of the sort-order preference
InSortOrder(tabs, config) ==
  \A i, j \in 1..Len(tabs) :
    i < j => CASE config.sortOrder = "alphabetical"
                    -> localeCompare(tabs[i].label, tabs[j].label) <= 0
               [] config.sortOrder = "recentlyOpenedFirst"
                    -> tabs[i].openedAt >= tabs[j].openedAt
               [] config.sortOrder = "recentlyOpenedLast"
                    -> tabs[i].openedAt <= tabs[j].openedAt

\* the document records the last root build has read: the snapshot
Snapshot == Get(cachedAllTabs)

\* the snapshot holds one record for each open document tab, in host order,
\* with the tab's pin state
SnapshotIsLive ==
  /\ Len(Snapshot) = Len(DocumentTabs(tabGroups))
  /\ \A i \in 1..Len(Snapshot) :
       /\ Snapshot[i].uri = getTabUri(DocumentTabs(tabGroups)[i])
       /\ Snapshot[i].isPinned = DocumentTabs(tabGroups)[i].isPinned

\* the records of a sequence are the documents of the snapshot of one pin
\* state, one record for each
ShowsPinned(records, pinned) ==
  /\ \A i \in 1..Len(records) : isTabItem(records[i]) /\ records[i].isPinned = pinned
  /\ \A u \in Uris :
       CountIf(records, LAMBDA t : t.uri = u)
         = CountIf(Snapshot, LAMBDA t : t.uri = u /\ t.isPinned = pinned)

AnyPinned == \E i \in 1..Len(Snapshot) : Snapshot[i].isPinned

IsPinnedGroup(item) == isGroupItem(item) /\ item.name = PinnedName

\* a root result that getChildren has built in the last step
BuiltRoot == lastOp.op = "getChildren" /\ lastOp.rebuilt

\* C9: with show-pinned-separately enabled, a root result has a pinned group
\* exactly if some open document is pinned; the group is the first root
\* element and the only one of its name, is expanded whatever the
\* default-collapsed preference, holds exactly the pinned documents in the
\* active sort order, and no pinned document is a root leaf or in another
\* group.  The documents are the open document tabs: the snapshot the build
\* has read holds one record for each.
C9_PinnedGroupLeadsAndHoldsThePinned ==
  (BuiltRoot /\ settings.showPinnedSeparately)
    => LET root == Get(returned)
       IN /\ SnapshotIsLive
          /\ AnyPinned <=> \E i \in 1..Len(root) : IsPinnedGroup(root[i])
          /\ \A i \in 1..Len(root) : IsPinnedGroup(root[i]) => i = 1
          /\ AnyPinned
               => /\ root[1].collapsibleState = "Expanded"
                  /\ ShowsPinned(root[1].tabs, TRUE)
                  /\ InSortOrder(root[1].tabs, settings)
          /\ \A i \in 1..Len(root) :
               ~ IsPinnedGroup(root[i])
                 => IF isTabItem(root[i]) THEN ~ root[i].isPinned
                    ELSE \A j \in 1..Len(root[i].tabs) : ~ root[i].tabs[j].isPinned

\* C9, its case: the pinned group leads a root whose other group is collapsed
C9_Witness ==
  /\ BuiltRoot
  /\ settings.showPinnedSeparately
  /\ settings.collapseGroupsByDefault
  /\ Len(Get(returned)) > 1
  /\ IsPinnedGroup(Get(returned)[1])
  /\ isGroupItem(Get(returned)[2])
  /\ Get(returned)[2].collapsibleState = "Collapsed"

\* C9, its case without a pinned document: no pinned group is built
C9_WitnessNonePinned ==
  /\ BuiltRoot
  /\ settings.showPinnedSeparately
  /\ Len(Get(returned)) > 0
  /\ ~ AnyPinned

\* C10: with group-by none, a root result under show-pinned-separately is the
\* pinned group (if any document is pinned) followed by every unpinned
\* document as a leaf of the root, in the active sort order; without
\* show-pinned-separately it is all documents as leaves, in the active sort
\* order.  The documents are the open document tabs: the snapshot the build
\* has read holds one record for each.
C10_UngroupedRootIsFlat ==
  (BuiltRoot /\ settings.groupBy = "none")
    => LET root == Get(returned)
           k == IF Len(root) > 0 /\ IsPinnedGroup(root[1]) THEN 1 ELSE 0
           leaves == SubSeq(root, k + 1, Len(root))
       IN /\ SnapshotIsLive
          /\ IF settings.showPinnedSeparately
             THEN /\ k = 1 <=> AnyPinned
                  /\ k = 1 => ShowsPinned(root[1].tabs, TRUE)
                  /\ ShowsPinned(leaves, FALSE)
                  /\ InSortOrder(leaves, settings)
             ELSE /\ \A i \in 1..Len(root) : isTabItem(root[i])
                  /\ \A u \in Uris :
                       CountIf(root, LAMBDA t : t.uri = u)
                         = CountIf(Snapshot, LAMBDA t : t.uri = u)
                  /\ InSortOrder(root, settings)

\* C10, its case: a pinned group is followed by leaves that the sort has
\* reordered
C10_Witness ==
  /\ BuiltRoot
  /\ settings.groupBy = "none"
  /\ settings.showPinnedSeparately
  /\ Len(Get(returned)) = MaxTabs
  /\ IsPinnedGroup(Get(returned)[1])
  /\ isTabItem(Get(returned)[MaxTabs])

\* C10, its case without show-pinned-separately: pinned and unpinned tabs
\* are leaves of one sorted sequence
C10_WitnessFlat ==
  /\ BuiltRoot
  /\ settings.groupBy = "none"
  /\ ~ settings.showPinnedSeparately
  /\ Len(Get(returned)) = MaxTabs
  /\ \E i \in 1..MaxTabs : Get(returned)[i].isPinned

\* two records compare equal under the sort-order preference
Ties(a, b, config) ==
  IF config.sortOrder = "alphabetical" THEN localeCompare(a.label, b.label) = 0
  ELSE a.openedAt = b.openedAt

\* what tells the tab of a record from the others
TabKey(t) == << t.uri, t.isPinned >>

\* the keys of the records of a sequence that have one of two keys, in order
KeysAmong(records, k1, k2) ==
  LET picked == SelectSeq(records, LAMBDA t : TabKey(t) \in { k1, k2 })
  IN [ i \in 1..Len(picked) |-> TabKey(picked[i]) ]

\* the member lists of a root result: of each group, and the leaves
MemberLists(root) ==
  { root[i].tabs : i \in { n \in 1..Len(root) : isGroupItem(root[n]) } }
    \cup { SelectSeq(root, isTabItem) }

\* C11: in every root build the members of every group, and the leaves of
\* the root, are in the active sort order (ascending label without case,
\* descending or ascending ledger sequence), and records that compare equal
\* stand in the order in which the host enumerates their tabs.
C11_MembersSortedAndStable ==
  BuiltRoot
    => \A members \in MemberLists(Get(returned)) :
         /\ InSortOrder(members, settings)
         /\ \A i, j \in 1..Len(members) :
              (i < j /\ Ties(members[i], members[j], settings))
                => KeysAmong(members, TabKey(members[i]), TabKey(members[j]))
                     = KeysAmong(Snapshot, TabKey(members[i]), TabKey(members[j]))

\* C11, its case: two documents whose labels differ in case only are members
\* of one group in host order, against the order of their code units
C11_Witness ==
  /\ BuiltRoot
  /\ settings.sortOrder = "alphabetical"
  /\ \E members \in MemberLists(Get(returned)) :
       /\ Len(members) > 1
       /\ members[1].uri = UriC
       /\ members[2].uri = UriB
       /\ isGroupItem(Get(returned)[1])

\* the bucket key of a record under the group-by preference
BucketKey(t, config) ==
  IF config.groupBy = "folder" THEN getParentFolder(t.uri) ELSE getFileExtension(t.uri)

\* the groups of a root result other than the pinned group, in order
BucketGroups(root) == SelectSeq(root, LAMBDA item : isGroupItem(item) /\ ~ IsPinnedGroup(item))

\* the records of the snapshot that go into buckets
Bucketed ==
  SelectSeq(Snapshot, LAMBDA t : ~ (settings.showPinnedSeparately /\ t.isPinned))

C13_GetParentReturnsOwningGroup ==
  BuiltRoot
    => \A i \in 1..Len(Get(returned)) :
         \E item \in { Get(returned)[i] } :
           /\ getParent(Self, item) = None
           /\ (isGroupItem(item) /\ ~ IsPinnedGroup(item))
                => \A j \in 1..Len(item.tabs) : getParent(Self, item.tabs[j]) = Some(item)

\* C13, the grouped part alone: the documents of the non-pinned groups and
\* the group nodes
C13_GroupedDocumentsHaveTheirGroup ==
  BuiltRoot
    => \A i \in 1..Len(Get(returned)) :
         \E item \in { Get(returned)[i] } :
           isGroupItem(item)
             => /\ getParent(Self, item) = None
                /\ ~ IsPinnedGroup(item)
                     => \A j \in 1..Len(item.tabs) :
                          getParent(Self, item.tabs[j]) = Some(item)

\* C13, its case: a document of the second of two folder groups
C13_Witness ==
  /\ BuiltRoot
  /\ settings.groupBy = "folder"
  /\ Len(BucketGroups(Get(returned))) > 1
  /\ getParent(Self, BucketGroups(Get(returned))[2].tabs[1])
       = Some(BucketGroups(Get(returned))[2])

\* the documents that have a ledger entry
Tracked(t) == UriToString(t.uri) \in DOMAIN tabOpenOrder

\* C14: a record carries the stored sequence of a tracked document and 0 for
\* an untracked one, and in a root build an untracked document stands before
\* every tracked document of its list under recently-opened-last and after
\* every tracked document of its list under recently-opened-first.
C14_UntrackedIsOrderedAsOldest ==
  BuiltRoot
    => /\ \A i \in 1..Len(Snapshot) :
            Snapshot[i].openedAt
              = IF Tracked(Snapshot[i]) THEN tabOpenOrder[UriToString(Snapshot[i].uri)] ELSE 0
       /\ \A members \in MemberLists(Get(returned)) :
            \A i, j \in 1..Len(members) :
              (~ Tracked(members[i]) /\ Tracked(members[j]))
                => /\ settings.sortOrder = "recentlyOpenedLast" => i < j
                   /\ settings.sortOrder = "recentlyOpenedFirst" => i > j

\* C14, the part about the records alone
C14_RecordsCarryStoredSequenceOrZero ==
  BuiltRoot
    => \A i \in 1..Len(Snapshot) :
         Snapshot[i].openedAt
           = IF Tracked(Snapshot[i]) THEN tabOpenOrder[UriToString(Snapshot[i].uri)] ELSE 0

\* C15: after every delivered delta the ledger holds no entry of a document
\* that is open in no pane, and the documents the delta lists as closed have
\* no entry: the ledger never outgrows the set of open documents.
C15_LedgerHoldsOnlyOpenDocuments ==
  /\ \A k \in DOMAIN tabOpenOrder : \E u \in OpenUris(tabGroups) : UriToString(u) = k
  /\ Cardinality(DOMAIN tabOpenOrder) <= Cardinality(OpenUris(tabGroups))
  /\ lastOp.op = "tabsChanged"
       => \A i \in 1..Len(lastOp.closed) :
            getTabUri(lastOp.closed[i]) # None
              => UriToString(getTabUri(lastOp.closed[i])) \notin DOMAIN tabOpenOrder

\* C15, its case: the last tab of a document was closed while another
\* document stays open and tracked
C15_Witness ==
  /\ lastOp.op = "tabsChanged"
  /\ lastOp.opened = << >>
  /\ Len(lastOp.closed) = 1
  /\ getTabUri(lastOp.closed[1]) # None
  /\ getTabUri(lastOp.closed[1]) \notin OpenUris(tabGroups)
  /\ DOMAIN tabOpenOrder # { }

\* the displayed order: the records of the root result from left to right,
\* those of a group where the group stands
RECURSIVE Displayed(_)
Displayed(root) ==
  IF root = << >> THEN << >>
  ELSE LET last == root[Len(root)] IN
       Displayed(SubSeq(root, 1, Len(root) - 1))
         \o (IF isGroupItem(last) THEN last.tabs ELSE << last >>)

\* the positions of a document in a displayed order
PositionsOf(order, editor) ==
  IF editor = None THEN { }
  ELSE { i \in 1..Len(order) : order[i].uri = Get(editor) }

\* the first position of a document that is present
PositionOf(order, editor) ==
  CHOOSE i \in PositionsOf(order, editor) : \A j \in PositionsOf(order, editor) : i <= j

C17_NavigationWithoutPosition ==
  [][lastOp'.op \in { "nextTab", "previousTab" }
       => \E order \in { Displayed(Get(cachedRootChildren')) } :
            /\ (order # << >> /\ PositionsOf(order, activeTextEditor) = { })
                 => /\ lastOp'.op = "nextTab" => shown' = Some(order[1].uri)
                    /\ lastOp'.op = "previousTab" => shown' = Some(order[Len(order)].uri)
                    /\ activeTextEditor' = shown'
            /\ order = << >>
                 => /\ shown' = None
                    /\ activeTextEditor' = activeTextEditor
                    /\ UNCHANGED << tabGroups, workspaceState >>
    ]_vars

\* C17, its case: previousTab, with an active document that is not
\* displayed, has shown the last of two entries
C17_Witness ==
  /\ lastOp.op = "previousTab"
  /\ cachedRootChildren # None
  /\ Len(Displayed(Get(cachedRootChildren))) = 2
  /\ shown = Some(Displayed(Get(cachedRootChildren))[2].uri)
  /\ shown # Some(Displayed(Get(cachedRootChildren))[1].uri)
  /\ shownFrom # None
  /\ PositionsOf(Displayed(Get(cachedRootChildren)), shownFrom) = { }

\* C17, its case: a command found the displayed order empty while an editor
\* was active
C17_WitnessEmpty ==
  /\ lastOp.op \in { "nextTab", "previousTab" }
  /\ cachedRootChildren = Some(<< >>)
  /\ shown = None
  /\ activeTextEditor # None

\* the colour the mode computes for a document
ModeColor(uri, config) ==
  IF config.colorBy = "none" THEN "none" ELSE autoColor(getFileExtension(uri))

C18_WitnessCleared ==
  /\ lastOp.op = "getTreeItem"
  /\ settings.colorBy = "extension"
  /\ colorCall \in { Some([ uri |-> UriA, color |-> "none", had |-> TRUE, was |-> c ])
                     : c \in ColorChoices }
  /\ Get(treeItem).uri = UriA
  /\ Get(treeItem).tabColor = "mint"

\* C19: the stored manual colours never hold the value none; a colour
\* command with none leaves its document without an entry, one with another
\* colour leaves its document with exactly that colour, and the entries of
\* all other documents are as they were.
C19_StoredColoursAreSparse ==
  /\ [](\A k \in DOMAIN workspaceState : workspaceState[k] # "none")
  /\ [][lastOp'.op = "setTabColor"
          => \E call \in { Get(colorCall') } :
               /\ call.color = "none"
                    => UriToString(call.uri) \notin DOMAIN workspaceState'
               /\ call.color # "none"
                    => /\ UriToString(call.uri) \in DOMAIN workspaceState'
                       /\ workspaceState'[UriToString(call.uri)] = call.color
               /\ \A k \in ((DOMAIN workspaceState) \cup (DOMAIN workspaceState'))
                             \ { UriToString(call.uri) } :
                    /\ k \in DOMAIN workspaceState
                    /\ k \in DOMAIN workspaceState'
                    /\ workspaceState'[k] = workspaceState[k]
       ]_vars

\* C19, its case: the colour of one document was cleared while another
\* document keeps its colour
C19_Witness ==
  /\ lastOp.op = "setTabColor"
  /\ colorCall \in { Some([ uri |-> UriA, color |-> "none", had |-> TRUE, was |-> c ])
                     : c \in ColorChoices }
  /\ DOMAIN workspaceState = { UriToString(UriM) }
  /\ workspaceState[UriToString(UriM)] = "pink"

\* C20: a colour command, also one that clears a document without a manual
\* colour, first stores the record and leaves the provider and the tree
\* untouched; when the update has settled the caches are dropped and one
\* tree-changed notification is fired, with the stored record as it was; and
\* the root asked for next is built anew, not taken from the cache.
C20_ColourChangeStoresThenRefreshes ==
  [][/\ lastOp'.op = "setTabColor"
          => /\ UNCHANGED providerVars
             /\ fired' = 0
             /\ awaiting' = awaiting + 1
             /\ workspaceState'
                  = IF Get(colorCall').color = "none"
                    THEN MapDelete(workspaceState, UriToString(Get(colorCall').uri))
                    ELSE MapSet(workspaceState, UriToString(Get(colorCall').uri),
                                Get(colorCall').color)
     /\ lastOp'.op = "colorRefresh"
          => /\ awaiting > 0
             /\ awaiting' = awaiting - 1
             /\ UNCHANGED workspaceState
             /\ fired' = 1
             /\ cachedRootChildren' = None
             /\ cachedRootChildrenSignature' = None
             /\ parentLookupMap' = EmptyMap
             /\ cachedAllTabs' # None
                  => ShowsLiveDocuments(Get(cachedAllTabs'), tabGroups')
     /\ (lastOp.op = "colorRefresh" /\ lastOp'.op = "getChildren") => lastOp'.rebuilt
    ]_vars

\* C20, its case: the refresh after clearing a document that had no manual
\* colour has dropped a cached root
C20_Witness ==
  /\ lastOp.op = "colorRefresh"
  /\ lastOp.hadRoot
  /\ cachedRootChildren = None
  /\ colorCall # None
  /\ Get(colorCall).color = "none"
  /\ ~ Get(colorCall).had

\* C20, its case: the root asked for after the refresh was rebuilt
C20_WitnessRebuilt ==
  /\ lastOp.op = "getChildren"
  /\ lastOp.rebuilt
  /\ colorCall # None
  /\ awaiting = 0
  /\ workspaceState # EmptyMap

\* the store of manual colours as it was before the last colour command,
\* rebuilt from what the command recorded
StoreBeforeCall ==
  IF Get(colorCall).had
  THEN MapSet(workspaceState, UriToString(Get(colorCall).uri), Get(colorCall).was)
  ELSE MapDelete(workspaceState, UriToString(Get(colorCall).uri))

\* a rejected write that directly follows its colour command
RejectedCall ==
  /\ lastOp'.op = "colorRejected"
  /\ lastOp.op = "setTabColor"
  /\ awaiting = 1

\* C21: when the write of the store of manual colours fails, the failure is
\* shown to the user, no cache is invalidated, no tree-changed notification is
\* fired, and every effective colour read afterwards is the one read before
\* the failed command
C21_FailedWriteChangesNothing ==
  [][ RejectedCall =>
        /\ errorShown' = Some(SetColorFailed)
        /\ UNCHANGED providerVars
        /\ fired' = 0
        /\ \A uri \in ColorInputs, config \in ColorPrefs :
             getEffectiveTabColor(workspaceState', [ uri |-> uri ], config)
               = getEffectiveTabColor(StoreBeforeCall, [ uri |-> uri ], config) ]_vars

\* the part of C21 that holds: a failed write is shown to the user and
\* neither invalidates a cache nor fires the tree-changed notification
C21_FailedWriteIsShownWithoutRefresh ==
  [][ lastOp'.op = "colorRejected" =>
        /\ errorShown' = Some(SetColorFailed)
        /\ UNCHANGED providerVars
        /\ fired' = 0 ]_vars

\* a write was rejected for a record that was stored before: the colour set
\* by the failed command is the one read afterwards
C21_WitnessRejected ==
  /\ lastOp.op = "colorRejected"
  /\ errorShown # None
  /\ colorCall = Some([ uri |-> UriA, color |-> "pink", had |-> TRUE, was |-> "gold" ])
  /\ getEffectiveTabColor(workspaceState, [ uri |-> UriA ], DefaultConfig) = "pink"

\* the place of the first tab of a document in the host's enumeration
FirstEnumerated(uri) ==
  CHOOSE i \in 1..Len(AllTabsOf(tabGroups)) :
    /\ getTabUri(AllTabsOf(tabGroups)[i]) = uri
    /\ \A j \in 1..(i - 1) : getTabUri(AllTabsOf(tabGroups)[j]) # uri

\* the place of the last tab of a document in the host's enumeration
LastEnumerated(uri) ==
  CHOOSE i \in 1..Len(AllTabsOf(tabGroups)) :
    /\ getTabUri(AllTabsOf(tabGroups)[i]) = uri
    /\ \A j \in (i + 1)..Len(AllTabsOf(tabGroups)) :
         getTabUri(AllTabsOf(tabGroups)[j]) # uri

\* C22: right after construction, of any two distinct open documents the one
\* the host enumerates first has the smaller sequence, and the counter is
\* above every seeded sequence
C22_SeededInEnumerationOrder ==
  lastOp.op = "activate" =>
    /\ \A u, v \in OpenUris(tabGroups) :
         FirstEnumerated(u) < FirstEnumerated(v)
           => tabOpenOrder[UriToString(u)] < tabOpenOrder[UriToString(v)]
    /\ \A u \in OpenUris(tabGroups) : tabOpenOrder[UriToString(u)] < orderCounter

\* what the constructor does establish: every open document is seeded, with
\* the place of its last tab among the document tabs, and the counter is the
\* number of document tabs
C22_SeededByLastTab ==
  lastOp.op = "activate" =>
    /\ DOMAIN tabOpenOrder = { UriToString(u) : u \in OpenUris(tabGroups) }
    /\ \A u, v \in OpenUris(tabGroups) :
         LastEnumerated(u) < LastEnumerated(v)
           => tabOpenOrder[UriToString(u)] < tabOpenOrder[UriToString(v)]
    /\ \A u \in OpenUris(tabGroups) : tabOpenOrder[UriToString(u)] < orderCounter
    /\ orderCounter = Len(DocumentTabs(tabGroups))

\* a start-up with a document in both panes and another one in between
C22_WitnessShownTwice ==
  /\ lastOp.op = "activate"
  /\ tabGroups[1] = << [ input |-> UriA, isPinned |-> FALSE ],
                       [ input |-> UriB, isPinned |-> FALSE ] >>
  /\ tabGroups[2] = << [ input |-> UriA, isPinned |-> FALSE ] >>
  /\ tabOpenOrder[UriToString(UriB)] < tabOpenOrder[UriToString(UriA)]

\* the tabs of all panes whose input carries a document
ResolvableTabs(groups) == SelectSeq(AllTabsOf(groups), LAMBDA t : t.input \in Uris)

\* a delta that lists only tabs without a document
UnresolvableDelta(op) ==
  /\ op.op = "tabsChanged"
  /\ Len(op.opened) + Len(op.closed) > 0
  /\ \A i \in 1..Len(op.opened) : op.opened[i].input = NoInput
  /\ \A i \in 1..Len(op.closed) : op.closed[i].input = NoInput

\* C23: a tab from which no URI can be derived has no ledger entry, no record
\* in the snapshot and none in the root tree, and is not counted by the badge;
\* the tabs that show a document are there one for one, in host order; a
\* delta of such tabs leaves the ledger and its counter as they are
C23_UnresolvableTabsAreLeftOut ==
  /\ [](DOMAIN tabOpenOrder \subseteq { UriToString(u) : u \in Uris })
  /\ [](cachedAllTabs # None
          => /\ Len(Snapshot) = Len(ResolvableTabs(tabGroups))
             /\ \A i \in 1..Len(Snapshot) :
                  Snapshot[i].uri = ResolvableTabs(tabGroups)[i].input)
  /\ [](returned # None
          => /\ Len(flattenItems(Get(returned))) = Len(ResolvableTabs(tabGroups))
             /\ \A u \in Uris :
                  CountIf(flattenItems(Get(returned)), LAMBDA t : t.uri = u)
                    = CountIf(ResolvableTabs(tabGroups), LAMBDA t : t.input = u))
  /\ [][/\ fired' = 1 => badge' = Some(Len(ResolvableTabs(tabGroups')))
        /\ UnresolvableDelta(lastOp') => UNCHANGED << tabOpenOrder, orderCounter >>
       ]_vars

\* C23, its case: a tab without a document was opened next to a document
C23_WitnessOpened ==
  /\ lastOp.op = "tabsChanged"
  /\ Len(lastOp.opened) = 1
  /\ lastOp.opened[1].input = NoInput
  /\ OpenUris(tabGroups) # { }

\* C23, its case continued: the root is built and the badge set while a tab
\* without a document stands between two documents
C23_Witness ==
  /\ lastOp.op = "getChildren"
  /\ lastOp.rebuilt
  /\ Len(AllTabsOf(tabGroups)) = 3
  /\ AllTabsOf(tabGroups)[2].input = NoInput
  /\ Len(flattenItems(Get(returned))) = 2
  /\ badge = Some(2)

\* C24: a refresh of a provider with a tree view leaves the badge at the
\* number of records of the snapshot, which is then the snapshot of the open
\* document tabs, when showTabCount is set, and leaves no badge when it is not
C24_RefreshSetsBadgeToSnapshotSize ==
  [][(fired' = 1 /\ treeView')
       => IF settings'.showTabCount
          THEN /\ cachedAllTabs' # None
               /\ badge' = Some(Len(Get(cachedAllTabs')))
               /\ Len(Get(cachedAllTabs')) = Len(ResolvableTabs(tabGroups'))
          ELSE badge' = None
     ]_vars

\* C24, its case: the refresh after a tab was closed counts the one document
\* that is left next to a tab without a document
C24_Witness ==
  /\ lastOp.op = "timer"
  /\ settings.showTabCount
  /\ retired # { }
  /\ Len(AllTabsOf(tabGroups)) = 2
  /\ badge = Some(1)

\* C24, its case continued: show-count was switched off and the refresh takes
\* the badge away while documents are open
C24_WitnessOff ==
  /\ lastOp.op = "timer"
  /\ ~ settings.showTabCount
  /\ Len(ResolvableTabs(tabGroups)) > 0
  /\ cachedConfig # None
  /\ badge = None

\* the keys of the classifier cache
CacheKeys(cache) == { cache[i].key : i \in 1..Len(cache) }

\* the last getProjectFolder call
Called == Get(projectCall)

InWorkspace(uri) ==
  /\ Len(uri) > Len(WorkspacePath) + 1
  /\ \A i \in 1..Len(WorkspacePath) : uri[i] = WorkspacePath[i]
  /\ uri[Len(WorkspacePath) + 1] = "/"

\* the directory that contains a document
ContainingDir(uri) ==
  SubSeq(uri, 1, (CHOOSE i \in 1..Len(uri) :
                    uri[i] = "/" /\ \A j \in (i + 1)..Len(uri) : uri[j] # "/") - 1)

\* the directories from the containing directory of a document of the
\* workspace up to the workspace folder
WalkDirs(uri) ==
  { SubSeq(uri, 1, i - 1) : i \in { j \in 1..Len(uri) : uri[j] = "/" /\ j > Len(WorkspacePath) } }

\* a project-marker file: its name ends in a dot, any characters but a dot,
\* and proj in any case
IsMarker(file) ==
  \E i \in 1..Len(file) :
    /\ file[i] = "."
    /\ \A j \in (i + 1)..Len(file) : file[j] # "."
    /\ Len(file) - i >= 4
    /\ toLowerCase(SubSeq(file, Len(file) - 3, Len(file))) = << "p", "r", "o", "j" >>

\* the name of a marker file without its extension
Stripped(file) ==
  SubSeq(file, 1, (CHOOSE i \in 1..Len(file) :
                     file[i] = "." /\ \A j \in (i + 1)..Len(file) : file[j] # ".") - 1)

\* the marker files a directory lists
MarkersAt(dsk, dir) ==
  IF dir \in DOMAIN dsk /\ dsk[dir].state = "listed"
  THEN { k \in 1..Len(dsk[dir].files) : IsMarker(dsk[dir].files[k]) }
  ELSE { }

\* the folder segments of the relative path that are no generic folder
Meaningful(uri) ==
  LET rel == SubSeq(uri, Len(WorkspacePath) + 2, Len(uri))
      parts == Split(rel, "/")
  IN { k \in 1..(Len(parts) - 1) :
         Len(parts[k]) > 0 /\ toLowerCase(parts[k]) \notin rootFolders }

\* the label the rules give a document of the workspace when no label is cached
RuleLabel(dsk, uri) ==
  IF \E d \in WalkDirs(uri) : MarkersAt(dsk, d) # { }
  THEN LET near == CHOOSE d \in WalkDirs(uri) :
                     /\ MarkersAt(dsk, d) # { }
                     /\ \A e \in WalkDirs(uri) : MarkersAt(dsk, e) # { } => Len(e) <= Len(d)
           first == CHOOSE k \in MarkersAt(dsk, near) : \A l \in MarkersAt(dsk, near) : k <= l
       IN Stripped(dsk[near].files[first])
  ELSE IF Meaningful(uri) # { }
  THEN Split(SubSeq(uri, Len(WorkspacePath) + 2, Len(uri)), "/")
         [CHOOSE k \in Meaningful(uri) : \A l \in Meaningful(uri) : k <= l]
  ELSE WorkspaceName

\* C27: getProjectFolder returns External, and stores nothing, for a document
\* outside the workspace; else the label cached for the containing directory;
\* else the stripped name of the first marker file of the nearest directory,
\* from the containing directory up to the workspace folder, that lists one;
\* else the first folder of the relative path that is no generic folder; else
\* the name of the workspace folder; a label it computes is in the cache
\* afterwards under the containing directory
C27_ProjectFolderRules ==
  [][lastOp'.op = "getProjectFolder"
       => IF ~ InWorkspace(Called'.uri)
          THEN Called'.ret = External /\ projectFolderCache' = projectFolderCache
          ELSE IF ContainingDir(Called'.uri) \in CacheKeys(projectFolderCache)
          THEN /\ \E i \in 1..Len(projectFolderCache) :
                    /\ projectFolderCache[i].key = ContainingDir(Called'.uri)
                    /\ projectFolderCache[i].value = Called'.ret
               /\ projectFolderCache' = projectFolderCache
          ELSE /\ Called'.ret = RuleLabel(disk, Called'.uri)
               /\ \E i \in 1..Len(projectFolderCache') :
                    projectFolderCache'[i]
                      = [ key |-> ContainingDir(Called'.uri), value |-> Called'.ret ]
     ]_vars

\* C27, its case: the containing directory lists no marker, the generic
\* folder above it does, the workspace folder does too: the nearer one names
\* the label
C27_Witness ==
  /\ lastOp.op = "getProjectFolder"
  /\ Called.uri = UriInSrcB
  /\ disk[dirname(UriInSrcB)] = NoProject
  /\ disk[dirname(UriInSrc)] = OneProject
  /\ disk[WorkspacePath] = TwoProjects
  /\ Called.ret = << "A" >>
  /\ cacheHas(projectFolderCache, dirname(UriInSrcB))

\* C27, its case: no directory lists a marker and the only folder of the
\* path is a generic one in another case: the workspace folder names the label
C27_WitnessFallback ==
  /\ lastOp.op = "getProjectFolder"
  /\ Called.uri = UriInSrc
  /\ \A d \in DOMAIN disk : MarkersAt(disk, d) = { }
  /\ Called.ret = WorkspaceName

\* C27, its case: a document outside the workspace is asked for while labels
\* are cached
C27_WitnessExternal ==
  /\ lastOp.op = "getProjectFolder"
  /\ Called.uri = UriExternal
  /\ Called.ret = External
  /\ projectFolderCache # << >>

\* a disk with every unreadable directory listed as empty
Emptied(dsk) ==
  [ d \in DOMAIN dsk |-> IF dsk[d].state = "unreadable" THEN Listed(<< >>) ELSE dsk[d] ]

\* C28: where a directory of the walk cannot be listed, getProjectFolder
\* returns the label it returns when that directory is empty: the walk goes
\* on with the parent directory and the remaining rules apply
C28_UnreadableDirectoryHoldsNoMarker ==
  [][(/\ lastOp'.op = "getProjectFolder"
      /\ InWorkspace(Called'.uri)
      /\ ContainingDir(Called'.uri) \notin CacheKeys(projectFolderCache)
      /\ \E d \in WalkDirs(Called'.uri) : disk[d].state = "unreadable")
       => /\ Called'.ret = RuleLabel(Emptied(disk), Called'.uri)
          /\ cacheHas(projectFolderCache', ContainingDir(Called'.uri))
     ]_vars

\* C28, its case: the containing directory cannot be listed and the
\* directory above it lists a marker
C28_Witness ==
  /\ lastOp.op = "getProjectFolder"
  /\ Called.uri = UriInSrcB
  /\ disk[dirname(UriInSrcB)] = Unreadable
  /\ disk[dirname(UriInSrc)] = OneProject
  /\ Called.ret = << "A" >>

\* C28, its case: no directory of the walk can be listed and the label is
\* the first folder that is no generic one
C28_WitnessFallback ==
  /\ lastOp.op = "getProjectFolder"
  /\ Called.uri = UriInSrcB
  /\ \A d \in WalkDirs(UriInSrcB) : disk[d] = Unreadable
  /\ Called.ret = << "b" >>

\* C26: refresh() leaves no classifier cache entry from before it: the
\* entries it leaves are the labels its own snapshot computed from the
\* directories as they are then, the snapshot's records carry those labels,
\* and a label asked for next is the one the rules give on the directories
\* as they are, whatever label was cached before a project file was renamed
C26_RefreshDropsCachedLabels ==
  [][/\ fired' = 1
          => /\ \A i \in 1..Len(projectFolderCache') :
                  \E uri \in OpenUris(tabGroups') :
                    /\ ContainingDir(uri) = projectFolderCache'[i].key
                    /\ projectFolderCache'[i].value = RuleLabel(disk', uri)
             /\ (cachedAllTabs' # None /\ needsProjectFolder(settings'))
                  => \A i \in 1..Len(Get(cachedAllTabs')) :
                       Get(cachedAllTabs')[i].projectFolder
                         = Some(RuleLabel(disk', Get(cachedAllTabs')[i].uri))
     /\ (lastOp.op = "timer" /\ lastOp'.op = "getProjectFolder")
          => Called'.ret = RuleLabel(disk, Called'.uri)
    ]_vars

\* C26, its case: a label was computed and cached, the project file was
\* replaced by one of another name, and the refresh has run: the cache and
\* the snapshot hold the new label
C26_Witness ==
  /\ lastOp.op = "timer"
  /\ projectCall = Some([ uri |-> UriInA, ret |-> << "A" >>, evicted |-> { } ])
  /\ disk[dirname(UriInA)] = TwoProjects
  /\ cacheHas(projectFolderCache, dirname(UriInA))
  /\ cacheGet(projectFolderCache, dirname(UriInA)) = << "B", ".", "c" >>
  /\ Get(cachedAllTabs)[1].projectFolder = Some(<< "B", ".", "c" >>)

\* C26, its case continued: the label asked for after that refresh is the new one
C26_WitnessAsked ==
  /\ lastOp.op = "getProjectFolder"
  /\ settings = DefaultConfig
  /\ Called.uri = UriInA
  /\ Called.ret = << "B", ".", "c" >>
  /\ disk[dirname(UriInA)] = TwoProjects
  /\ refreshPending = FALSE

\* a ^ c for a below 2^16 and a character code c below 2^7, bit by bit
XorLow(a, c) ==
  (a \div 128) * 128
    + ((a + c) % 2)
    + 2 * (((a \div 2) + (c \div 2)) % 2)
    + 4 * (((a \div 4) + (c \div 4)) % 2)
    + 8 * (((a \div 8) + (c \div 8)) % 2)
    + 16 * (((a \div 16) + (c \div 16)) % 2)
    + 32 * (((a \div 32) + (c \div 32)) % 2)
    + 64 * (((a \div 64) + (c \div 64)) % 2)

\* hash * 33 XOR charCode from 5381, left to right, modulo 2^32, as the pair
\* of the upper and the lower sixteen bits
RECURSIVE Djb2(_)
Djb2(key) ==
  IF key = << >> THEN << 0, 5381 >>
  ELSE LET before == Djb2(SubSeq(key, 1, Len(key) - 1))
           low == before[2] * 33
       IN << (before[1] * 33 + low \div 65536) % 65536,
             XorLow(low % 65536, CharCode[key[Len(key)]]) >>

\* the hash read as a signed 32-bit number is negative
Negative(key) == Djb2(key)[1] >= 32768

\* the absolute value of the signed hash, modulo the palette length: 2^32 is
\* a multiple of 16, so the lower bits decide
Djb2Index(key) ==
  IF Negative(key) THEN (16 - (Djb2(key)[2] % 16)) % 16 ELSE Djb2(key)[2] % 16

\* C29: the automatic colour of a key is the palette colour at the index
\* |hash| mod 16, where hash is hash * 33 XOR charCode from 5381 in 32-bit
\* signed arithmetic; the index lies in 0..15 and the colour is never none;
\* the colour is a function of the key
C29_AutoColourIsPaletteColourOfHash ==
  hashCall # None
    => /\ Get(hashCall).index = Djb2Index(Get(hashCall).key)
       /\ Get(hashCall).index \in 0..15
       /\ Len(autoColorPalette) = 16
       /\ Get(hashCall).color = autoColorPalette[Djb2Index(Get(hashCall).key) + 1]
       /\ Get(hashCall).color # "none"
       /\ (Get(hashCall).hash.hi < 32768 \/ Get(hashCall).hash = Word(32768, 0))
       /\ Get(hashCall).hash
            \in { Word(Djb2(Get(hashCall).key)[1], Djb2(Get(hashCall).key)[2]),
                  Word((65535 - Djb2(Get(hashCall).key)[1]
                          + (IF Djb2(Get(hashCall).key)[2] = 0 THEN 1 ELSE 0)) % 65536,
                       (65536 - Djb2(Get(hashCall).key)[2]) % 65536) }

\* C29, its case: the hash of a key has run over 32 bits and is negative
C29_Witness ==
  /\ hashCall # None
  /\ Len(Get(hashCall).key) = MaxKeyLen
  /\ Negative(Get(hashCall).key)
  /\ Get(hashCall).index \notin { 0, 8 }

\* the tabs of the panes that a step takes out of them
ClosedNow ==
  { AllTabsOf(tabGroups)[i] : i \in { k \in 1..Len(AllTabsOf(tabGroups)) :
      \A j \in 1..Len(AllTabsOf(tabGroups')) :
         AllTabsOf(tabGroups')[j].id # AllTabsOf(tabGroups)[k].id } }

\* the tabs a close command on a node may close, by the rule of the command
MayClose(command, item, t) ==
  /\ ~ t.isPinned
  /\ CASE command = "closeOtherTabs" ->
            /\ isTabItem(item)
            /\ t.input # NoInput
            /\ t.input # item.uri
       [] command = "closeTabsToTheRight" ->
            /\ isTabItem(item)
            /\ \E g \in 1..2 : \E i, j \in 1..Len(tabGroups[g]) :
                 /\ tabGroups[g][i].id = item.tab.id
                 /\ tabGroups[g][j] = t
                 /\ i < j
       [] command = "closeTabsInGroup" ->
            /\ isGroupItem(item)
            /\ \E k \in 1..Len(item.tabs) : item.tabs[k].tab.id = t.id

\* C30: closeOtherTabs never closes a pinned tab nor a tab that shows the
\* document of the selected node (nor a tab without a document);
\* closeTabsToTheRight closes only unpinned tabs that stand after the
\* selected tab in its pane; closeTabsInGroup closes only unpinned tabs of
\* the records of that group.  Pinned is the state of the tab when the
\* command runs.  The tabs that stay keep their panes and their order.
C30_CloseCommandsCloseOnlyWhatTheyMay ==
  [][ \A command \in CloseCommands : \A item \in displayedItems :
        CloseTabsCommand(command, item)
          => /\ \A t \in ClosedNow : MayClose(command, item, t)
             /\ \A g \in 1..2 :
                  tabGroups'[g] = SelectSeq(tabGroups[g], LAMBDA t : t \notin ClosedNow) ]_vars

\* closeOtherTabs has closed a tab and a pinned tab of the same document as
\* a closed one is still open
C30_Witness ==
  /\ lastOp.op = "closeOtherTabs"
  /\ \E i \in 1..Len(lastOp.closed) : \E j \in 1..Len(AllTabsOf(tabGroups)) :
       /\ AllTabsOf(tabGroups)[j].isPinned
       /\ AllTabsOf(tabGroups)[j].input = lastOp.closed[i].input

\* closeTabsToTheRight has closed a tab and a tab of the other pane is open
C30_WitnessRight ==
  /\ lastOp.op = "closeTabsToTheRight"
  /\ lastOp.closed # << >>
  /\ tabGroups[1] # << >>
  /\ tabGroups[2] # << >>

\* closeTabsInGroup has closed a tab of a group the tree displayed before a
\* tab of the group was pinned: the pinned tab is still open
C30_WitnessGroup ==
  /\ lastOp.op = "closeTabsInGroup"
  /\ lastOp.closed # << >>
  /\ displayed # None
  /\ \E n \in 1..Len(Get(displayed)) :
       /\ isGroupItem(Get(displayed)[n])
       /\ \E k, m \in 1..Len(Get(displayed)[n].tabs) :
            /\ Get(displayed)[n].tabs[k].tab.id = lastOp.closed[1].id
            /\ ~ Get(displayed)[n].tabs[m].tab.isPinned
            /\ \E j \in 1..Len(AllTabsOf(tabGroups)) :
                 /\ AllTabsOf(tabGroups)[j].id = Get(displayed)[n].tabs[m].tab.id
                 /\ AllTabsOf(tabGroups)[j].isPinned

\* closeTabsInGroup was handed a tab that was closed already
C30_WitnessRejected ==
  /\ lastOp.op = "closeTabsInGroup"
  /\ errorShown = Some(CloseInGroupFailed)

\* the answer getChildren owes for a node: the members the group holds, in
\* the order it holds them, and nothing for a document record
ChildrenOwed(element) == IF isGroupItem(element) THEN element.tabs ELSE << >>

\* C31, as stated: getChildren with a node returns the group's stored members
\* in their stored order, or nothing for a document record, and reads and
\* changes no cache of the provider
C31_NodeChildrenTouchNoCache ==
  [][ \A element \in displayedItems :
        GetChildrenOf(element)
          => /\ returned' = Some(ChildrenOwed(element))
             /\ UNCHANGED providerVars ]_vars

\* C31, amended: getChildren with a node returns the group's stored members
\* in their stored order, or nothing for a document record; it leaves the
\* snapshot, the root result, its signature, the parent lookup, the ledger
\* and the project cache as they are, and the only cache it goes through is
\* the one of getConfig(), which it refills when that has expired or was
\* dropped
C31_NodeChildrenAreStoredMembers ==
  [][ \A element \in displayedItems :
        GetChildrenOf(element)
          => /\ returned' = Some(ChildrenOwed(element))
             /\ UNCHANGED << tabOpenOrder, orderCounter, treeView, badge, cachedAllTabs,
                             cachedRootChildren, cachedRootChildrenSignature,
                             parentLookupMap, projectFolderCache >>
             /\ \/ UNCHANGED << cachedConfig, configCacheInvalidateTime >>
                \/ /\ \/ cachedConfig = None
                      \/ now - configCacheInvalidateTime >= ConfigCacheMs
                   /\ cachedConfig' = Some(settings)
                   /\ configCacheInvalidateTime' = now ]_vars

\* the members of a group were returned in the order the group holds them,
\* which is not the order of the preferences of now
C31_Witness ==
  /\ lastOp.op = "getChildrenOf"
  /\ returned # None
  /\ Len(Get(returned)) >= 2
  /\ Get(returned) # sortTabs(Get(returned), settings)

\* a document record was asked for its children
C31_WitnessLeaf ==
  /\ lastOp.op = "getChildrenOf"
  /\ returned = Some(<< >>)

\* the file name of a path: the text after its last slash or, when the path
\* ends with the slash, the path
FileNameIn(path) ==
  IF lastIndexOf(path, "/") < Len(path)
  THEN SubSeq(path, lastIndexOf(path, "/") + 1, Len(path))
  ELSE path

C32_WitnessNone ==
  /\ lastOp.op = "getFileExtension"
  /\ returned # None
  /\ Get(returned).uri = << "/", ".", "g", "/", "T" >>
  /\ Get(returned).ret = NoExtension

\* C33: refreshPending is set exactly while a timer is armed; every change
\* notification, also one handled after a timer's callback has run, leaves
\* the flag set and a timer armed; whenever the flag is set, the callback of
\* the timer runs afterwards, and it drops the root result and leaves no
\* cached preferences but those of now and no snapshot but one of the live
\* tabs; a root built while no refresh is pending is built from the live
\* tabs and the preferences of now
C33_EveryNotificationIsFollowedByARefresh ==
  /\ [](refreshPending <=> timers > 0)
  /\ [][lastOp'.op \in Notifications => (refreshPending' /\ timers' > 0)]_vars
  /\ [](lastOp.op = "timer"
          => /\ fired = 1
             /\ ~ refreshPending
             /\ cachedRootChildren = None
             /\ (cachedConfig # None => Get(cachedConfig) = settings)
             /\ (cachedAllTabs # None => SnapshotIsLive))
  /\ []((BuiltRoot /\ ~ refreshPending)
          => /\ SnapshotIsLive
             /\ ShowsLiveDocuments(Get(returned), tabGroups)
             /\ Get(cachedConfig) = settings)
  /\ (refreshPending ~> lastOp.op = "timer")

\* a refresh has run after a document was closed, and the root built after
\* it shows the tabs that are open
C33_Witness ==
  /\ BuiltRoot
  /\ ~ refreshPending
  /\ retired # { }
  /\ settings # DefaultConfig
  /\ Len(flattenItems(Get(returned))) = MaxTabs

\* C34: while a grouping mode is active, getParent of the record that
\* findTabByUri returns for an open document is a group that holds the
\* document, whether or not a root build has run since the caches were
\* dropped
C34_FoundRecordHasItsGroup ==
  (lastOp.op = "revealActiveFile" /\ returned # None /\ settings.groupBy # "none")
    => /\ Get(returned).parent # None
       /\ isGroupItem(Get(Get(returned).parent))
       /\ \E j \in 1..Len(Get(Get(returned).parent).tabs) :
            Get(Get(returned).parent).tabs[j].uri = Get(returned).item.uri

\* what holds of the code: the record has its group while the root result
\* is cached, and no parent while it is not
C34_FoundRecordHasItsGroupWhileRootIsCached ==
  (lastOp.op = "revealActiveFile" /\ returned # None /\ settings.groupBy # "none")
    => IF cachedRootChildren # None
       THEN /\ Get(returned).parent # None
            /\ \E j \in 1..Len(Get(Get(returned).parent).tabs) :
                 Get(Get(returned).parent).tabs[j].uri = Get(returned).item.uri
       ELSE Get(returned).parent = None

\* what the tree shows of a record and of a node: the document, its pin and
\* its sequence; the name, the state and the members of a group
RecordShape(t) == [ uri |-> t.uri, label |-> t.label, isPinned |-> t.isPinned,
                    openedAt |-> t.openedAt ]

NodeShape(item) ==
  IF isGroupItem(item)
  THEN [ type |-> "group", name |-> item.name, collapsibleState |-> item.collapsibleState,
         tabs |-> [ j \in 1..Len(item.tabs) |-> RecordShape(item.tabs[j]) ] ]
  ELSE [ type |-> "tab", tab |-> RecordShape(item) ]

RootShape(root) == [ i \in 1..Len(root) |-> NodeShape(root[i]) ]

Occurrences(records, r) == Cardinality({ i \in 1..Len(records) : records[i] = r })

\* the members of the groups of a root result plus its root-level leaves
RECURSIVE MemberCount(_)
MemberCount(children) ==
  IF children = << >> THEN 0
  ELSE (IF isGroupItem(Head(children)) THEN Len(Head(children).tabs) ELSE 1)
         + MemberCount(Tail(children))

IsOpen(uri) ==
  \E i \in 1..Len(DocumentTabs(tabGroups)) : getTabUri(DocumentTabs(tabGroups)[i]) = uri

\* no document is shown by two tabs
NoDocumentOpenTwice ==
  \A i, j \in 1..Len(DocumentTabs(tabGroups)) :
    getTabUri(DocumentTabs(tabGroups)[i]) = getTabUri(DocumentTabs(tabGroups)[j]) => i = j

\* C37: with the set of open documents unchanged and the active document one
\* of them, nextTab invoked repeatedly makes every open document the active
\* one, also when a document is open in more than one pane.
C37_NextTabVisitsEveryEntry ==
  \A u \in Uris :
    (IsOpen(u) /\ activeTextEditor # None /\ IsOpen(Get(activeTextEditor)))
      ~> (activeTextEditor = Some(u))

\* the same for panes that show no document twice
C37_NextTabVisitsEveryEntryShownOnce ==
  \A u \in Uris :
    (NoDocumentOpenTwice /\ IsOpen(u) /\ activeTextEditor # None
       /\ IsOpen(Get(activeTextEditor)))
      ~> (activeTextEditor = Some(u))

\* C38: a delivered delta (trackNewTabs, removeClosedTabs) leaves the stored
\* manual colours as they are, and setting or clearing a manual colour,
\* with the refresh that follows, leaves the ledger and the counter as they
\* are; so a manual colour is the colour of the document's tree item for as
\* long as it is stored, also after the document was closed and reopened.
C38_LedgerAndOverridesAreIndependent ==
  /\ [][lastOp'.op = "tabsChanged" => workspaceState' = workspaceState]_vars
  /\ [][lastOp'.op \in { "setTabColor", "colorRefresh" }
          => /\ tabOpenOrder' = tabOpenOrder
             /\ orderCounter' = orderCounter]_vars
  /\ [](lastOp.op = "getTreeItem"
          => (UriToString(Get(treeItem).uri) \in DOMAIN workspaceState
                => Get(treeItem).tabColor = workspaceState[UriToString(Get(treeItem).uri)]))

\* the document got its manual colour, was closed and is open again under a
\* new sequence, and its tree item carries the manual colour
C38_Witness ==
  /\ lastOp.op = "getTreeItem"
  /\ retired # { }
  /\ IsOpen(UriA)
  /\ stored
  /\ awaiting = 0
  /\ UriToString(UriA) \in DOMAIN workspaceState
  /\ Get(treeItem).tabColor = "gold"
  /\ UriToString(UriA) \in DOMAIN tabOpenOrder
  /\ tabOpenOrder[UriToString(UriA)] > 0

\* the configuration groups or colours by project
ProjectMode(config) == "project" \in { config.groupBy, config.colorBy }

\* C39: a snapshot is built with the project folder of every record exactly
\* when the configuration the build reads groups or colours by project; a
\* root or snapshot build that reads another mode leaves the classifier
\* cache as it is, and a refresh that reads another mode leaves it empty.
C39_ProjectRootsPrecomputedOnlyWhenNeeded ==
  /\ [][(cachedAllTabs' # None /\ (cachedAllTabs = None \/ lastOp'.op = "timer"))
          => \A i \in 1..Len(Get(cachedAllTabs')) :
               Get(cachedAllTabs')[i].projectFolder # None
                 <=> ProjectMode(Get(cachedConfig'))]_vars
  /\ [][(lastOp'.op \in { "getChildren", "findTabByUri" }
           /\ ~ ProjectMode(Get(cachedConfig')))
          => projectFolderCache' = projectFolderCache]_vars
  /\ [][(lastOp'.op = "timer" /\ cachedConfig' # None
           /\ ~ ProjectMode(Get(cachedConfig')))
          => projectFolderCache' = << >>]_vars

\* the root was built grouped by folder while the classifier cache held a
\* label: the records carry no project folder
C39_Witness ==
  /\ BuiltRoot
  /\ settings.groupBy = "folder"
  /\ Get(cachedConfig) = settings
  /\ projectFolderCache # << >>
  /\ Len(Snapshot) = 2
  /\ \A i \in 1..Len(Snapshot) : Snapshot[i].projectFolder = None

\* the root was built grouped by project: the records carry their labels
C39_WitnessProject ==
  /\ BuiltRoot
  /\ settings.groupBy = "project"
  /\ Get(cachedConfig) = settings
  /\ Len(Get(cachedRootChildren)) = 2
  /\ \A i \in 1..Len(Snapshot) : Snapshot[i].projectFolder # None

\* C40: once the subscriptions are disposed no refresh runs and no
\* tree-changed notification is emitted, also when a coalesced refresh was
\* pending at that moment.
C40_NoRefreshAfterDispose ==
  [][disposed => (lastOp'.op # "timer" /\ fired' = 0)]_vars

\* once the subscriptions are disposed no refresh is scheduled, and a refresh
\* runs at most for the timer that was armed before
C40_OnlyThePendingRefreshRunsAfterDispose ==
  /\ [][disposed => (timers' <= timers /\ (refreshPending' => refreshPending))]_vars
  /\ [](disposed => timers <= 1)
  /\ []((disposed /\ refreshPending) => <>(lastOp.op = "timer" /\ ~ refreshPending))

\* C8: every snapshot built after a delta was delivered holds, for each open
\* document, the sequence the ledger assigned when it was opened: the
\* document has a ledger entry and the record carries that entry.
C8_SnapshotReadsAssignedSequence ==
  cachedAllTabs # None
    => \A i \in 1..Len(Get(cachedAllTabs)) :
         LET t == Get(cachedAllTabs)[i] IN
         /\ UriToString(t.uri) \in DOMAIN tabOpenOrder
         /\ t.openedAt = tabOpenOrder[UriToString(t.uri)]

====
